---- MODULE Spec2Model ----
(***************************************************************************)
(* State-machine model of the API client of the TeXmExDeX Type Modeler     *)
(* (class API: capability wrappers, _callGradio5, _callGradioLegacy,       *)
(* _getFnIndex, checkConnection, downloadFile) together with the network   *)
(* and the Gradio queue it talks to, and of the handlers of App and Chat   *)
(* that call it.                                                           *)
(***************************************************************************)
EXTENDS Integers, Sequences, FiniteSets, TLC

\* ------------------------------------------------------------------ bounds
MaxCalls == 2         \* capability calls made on the one client
MaxReads == 2         \* chunks one poll stream delivers before it ends
MaxLines == 2         \* event lines the server appends to a stream per read
MaxProbes == 1        \* stand-alone checkConnection() calls
MaxDownloads == 1     \* downloadFile() calls
MaxLookups == 2       \* _getFnIndex lookups recorded by SpecFnIndex
MaxGens == 2          \* App._generateMesh runs that reach the backend
MaxSends == 2         \* Chat._handleSend runs with a non-empty message
MaxSlides == 1        \* input events on parameter sliders
MaxClicks == 1        \* clicks on each of Parse, Validate and Export

CallIds == 1..MaxCalls
GenIds == 1..MaxGens
SendIds == 1..MaxSends

\* ------------------------------------------------------------- JS values
\* A JavaScript value is a tagged record; a string is its sequence of
\* characters, so that startsWith, slicing and concatenation are computed.
Undef == [t |-> "undefined"]
Null == [t |-> "null"]
Str(s) == [t |-> "string", s |-> s]
Num(n) == [t |-> "number", n |-> n]
Arr(items) == [t |-> "array", items |-> items]
FileObj(url, path) == [t |-> "object", url |-> url, path |-> path]
EmptyObj == [t |-> "object", url |-> Undef, path |-> Undef]
Fn(name) == [t |-> "function", name |-> name]

\* JS truthiness (ToBoolean).
Truthy(v) ==
    CASE v.t = "undefined" -> FALSE
      [] v.t = "null" -> FALSE
      [] v.t = "string" -> v.s # <<>>
      [] v.t = "number" -> v.n # 0
      [] OTHER -> TRUE

\* typeof v === 'object' (null included, as in JS).
TypeofObject(v) == v.t \in {"object", "array", "null"}

\* v[i] for a 0-based index; reading an index of undefined or null throws.
IndexThrows(v) == v.t \in {"undefined", "null"}
Idx(v, i) ==
    IF v.t = "array" /\ i + 1 <= Len(v.items) THEN v.items[i + 1]
    ELSE IF v.t = "string" /\ i + 1 <= Len(v.s) THEN Str(<<v.s[i + 1]>>)
    ELSE Undef

\* String.prototype.startsWith on character sequences.
StartsWith(s, p) == Len(s) >= Len(p) /\ SubSeq(s, 1, Len(p)) = p

\* Character sequences used by the client.
cHttp == <<"h", "t", "t", "p">>
cSlash == <<"/">>
cBase == <<"h", "t", "t", "p", "s", ":", "/", "/", "b">>
cOK == <<"O", "K">>
cInfo == <<"1", "0", "x", "1", "0">>
cPath == <<"/", "f", "/", "m">>
cBraces == <<"{", "}">>
cBrackets == <<"[", "]">>
cNotJson == <<"n", "o">>

\* ---------------------------------------------------------------- JSON.parse
Digits == {"0", "1", "2", "3", "4", "5", "6", "7", "8", "9"}
DigitVal(ch) ==
    CASE ch = "0" -> 0 [] ch = "1" -> 1 [] ch = "2" -> 2 [] ch = "3" -> 3
      [] ch = "4" -> 4 [] ch = "5" -> 5 [] ch = "6" -> 6 [] ch = "7" -> 7
      [] ch = "8" -> 8 [] OTHER -> 9

\* The body of a JSON array of single digits: d (, d)*
RECURSIVE DigitList(_)
DigitList(s) ==
    IF Len(s) = 0 THEN [ok |-> FALSE, items |-> <<>>]
    ELSE IF s[1] \notin Digits THEN [ok |-> FALSE, items |-> <<>>]
    ELSE IF Len(s) = 1 THEN [ok |-> TRUE, items |-> <<Num(DigitVal(s[1]))>>]
    ELSE IF s[2] # "," THEN [ok |-> FALSE, items |-> <<>>]
    ELSE LET r == DigitList(SubSeq(s, 3, Len(s)))
         IN  [ok |-> r.ok, items |-> <<Num(DigitVal(s[1]))>> \o r.items]

\* An object with own keys: kv maps each key to its value.
Dict(kv) == [t |-> "object", url |-> Undef, path |-> Undef, kv |-> kv]

\* JSON.parse of a character sequence, for the JSON texts of the model:
\* {}  []  [d,d,...]  d  {"k":d}  {"k":[d,...]} ; anything else is a
\* SyntaxError.
JSONValueText(s) ==
    IF s = cBrackets THEN [ok |-> TRUE, v |-> Arr(<<>>)]
    ELSE IF Len(s) = 1 /\ s[1] \in Digits THEN [ok |-> TRUE, v |-> Num(DigitVal(s[1]))]
    ELSE IF Len(s) >= 3 /\ s[1] = "[" /\ s[Len(s)] = "]"
              /\ DigitList(SubSeq(s, 2, Len(s) - 1)).ok
         THEN [ok |-> TRUE, v |-> Arr(DigitList(SubSeq(s, 2, Len(s) - 1)).items)]
    ELSE [ok |-> FALSE, v |-> Undef]
JSONParseText(s) ==
    IF s = cBraces THEN [ok |-> TRUE, v |-> EmptyObj]
    ELSE IF JSONValueText(s).ok THEN JSONValueText(s)
    ELSE IF Len(s) >= 7 /\ s[1] = "{" /\ s[2] = "\"" /\ s[4] = "\"" /\ s[5] = ":"
              /\ s[Len(s)] = "}" /\ JSONValueText(SubSeq(s, 6, Len(s) - 1)).ok
         THEN [ok |-> TRUE,
               v |-> Dict([k \in {s[3]} |-> JSONValueText(SubSeq(s, 6, Len(s) - 1)).v])]
    ELSE [ok |-> FALSE, v |-> Undef]

\* JSON.parse(v): a non-string argument is first converted to a string
\* ("[object Object]", "undefined", "a,b"), which is no JSON text; the
\* string "null" is.
JSONParse(v) ==
    CASE v.t = "string" -> JSONParseText(v.s)
      [] v.t = "null" -> [ok |-> TRUE, v |-> Null]
      [] v.t = "number" -> [ok |-> TRUE, v |-> v]
      [] OTHER -> [ok |-> FALSE, v |-> Undef]

\* JSON.stringify of a number, an array of numbers, or an object of such
\* values (the parameter objects of the model have at most one key, so the
\* order of the keys does not show).
DigitChar(n) ==
    CASE n = 0 -> "0" [] n = 1 -> "1" [] n = 2 -> "2" [] n = 3 -> "3"
      [] n = 4 -> "4" [] n = 5 -> "5" [] n = 6 -> "6" [] n = 7 -> "7"
      [] n = 8 -> "8" [] OTHER -> "9"
RECURSIVE NumText(_)
NumText(n) ==
    IF n < 10 THEN <<DigitChar(n)>> ELSE NumText(n \div 10) \o <<DigitChar(n % 10)>>
RECURSIVE JoinItems(_)
JoinItems(items) ==
    IF items = <<>> THEN <<>>
    ELSE IF Len(items) = 1 THEN NumText(items[1].n)
    ELSE NumText(items[1].n) \o <<",">> \o JoinItems(Tail(items))
StringifyValue(v) ==
    IF v.t = "array" THEN <<"[">> \o JoinItems(v.items) \o <<"]">>
    ELSE NumText(v.n)
RECURSIVE StringifyEntries(_, _)
StringifyEntries(kv, keys) ==
    IF keys = {} THEN <<>>
    ELSE LET k == CHOOSE x \in keys : TRUE
         IN  <<"\"", k, "\"", ":">> \o StringifyValue(kv[k])
                 \o (IF keys = {k} THEN <<>> ELSE <<",">>)
                 \o StringifyEntries(kv, keys \ {k})
JSONStringify(kv) == <<"{">> \o StringifyEntries(kv, DOMAIN kv) \o <<"}">>

\* Object.entries(v) as a mapping from key to value: the own keys of an
\* object, the indices of an array; a number has none.
ObjectEntries(v) ==
    IF v.t = "object" /\ "kv" \in DOMAIN v THEN v.kv
    ELSE IF v.t = "array"
    THEN [k \in {DigitChar(i - 1) : i \in DOMAIN v.items} |-> v.items[DigitVal(k) + 1]]
    ELSE [k \in {} |-> Undef]

\* ------------------------------------------------------------ _getFnIndex
Capabilities ==
    {"chat_to_code", "parse_parameters", "generate_mesh", "export_stl",
     "get_component_template", "validate_code", "auto_fix_code"}

indexMap ==
    [n \in Capabilities |->
        CASE n = "chat_to_code" -> 0
          [] n = "parse_parameters" -> 2
          [] n = "generate_mesh" -> 3
          [] n = "export_stl" -> 4
          [] n = "get_component_template" -> 5
          [] n = "validate_code" -> 6
          [] OTHER -> 7]

\* indexMap is an object literal: a property read that finds no own key goes
\* on to Object.prototype, whose members are functions (or, for __proto__,
\* an object), none of them nullish.
ObjectPrototypeKeys ==
    {"constructor", "toString", "valueOf", "hasOwnProperty", "__proto__"}

\* indexMap[fnName]
IndexMapGet(fnName) ==
    IF fnName \in Capabilities THEN Num(indexMap[fnName])
    ELSE IF fnName \in ObjectPrototypeKeys THEN Fn(fnName)
    ELSE Undef

\* indexMap[fnName] ?? 0
getFnIndex(fnName) ==
    LET v == IndexMapGet(fnName)
    IN  IF v.t \in {"undefined", "null"} THEN Num(0) ELSE v

\* Names looked up by SpecFnIndex: the seven keys, unknown names, and names
\* of members of Object.prototype.
LookupNames ==
    Capabilities \cup {"unknown_fn", "", "constructor", "toString", "__proto__"}

\* ------------------------------------------------------ capability wrappers
Methods ==
    {"chatToCode", "generateMesh", "parseParameters", "validateCode",
     "autoFixCode", "exportSTL", "getComponentTemplate"}

\* The fn_name each wrapper passes to _callGradio5.
FnName(m) ==
    CASE m = "chatToCode" -> "chat_to_code"
      [] m = "generateMesh" -> "generate_mesh"
      [] m = "parseParameters" -> "parse_parameters"
      [] m = "validateCode" -> "validate_code"
      [] m = "autoFixCode" -> "auto_fix_code"
      [] m = "exportSTL" -> "export_stl"
      [] OTHER -> "get_component_template"

\* The argument array each wrapper passes, by the names of its parameters.
ArgsOf(m) ==
    CASE m = "chatToCode" -> <<"message", "history", "currentCode">>
      [] m \in {"generateMesh", "exportSTL"} -> <<"code", "paramsJson">>
      [] m = "getComponentTemplate" -> <<"componentType", "paramsJson">>
      [] OTHER -> <<"code">>

\* a || b
Or(a, b) == IF Truthy(a) THEN a ELSE b

\* obj.url and obj.path (undefined on a value without the property).
PropUrl(v) == IF v.t = "object" THEN v.url ELSE Undef
PropPath(v) == IF v.t = "object" THEN v.path ELSE Undef

\* The file-reference normalization of generateMesh and exportSTL.  The
\* result is the value assigned to meshUrl / fileUrl; throws is TRUE when
\* startsWith is called on a value that is no string.
M_Prefixed(u, base) ==
    IF ~Truthy(u) THEN [throws |-> FALSE, v |-> u]
    ELSE IF u.t # "string" THEN [throws |-> TRUE, v |-> Undef]
    ELSE IF ~StartsWith(u.s, cHttp)
    THEN [throws |-> FALSE,
          v |-> Str(base \o (IF StartsWith(u.s, cSlash) THEN <<>> ELSE cSlash) \o u.s)]
    ELSE [throws |-> FALSE, v |-> u]
M_NormalizePathFirst(raw, base) ==
    IF Truthy(raw) /\ TypeofObject(raw)
    THEN M_Prefixed(Or(Or(PropPath(raw), PropUrl(raw)), Null), base)
    ELSE [throws |-> FALSE, v |-> raw]
M_NormalizeAlwaysSlash(raw, base) ==
    IF Truthy(raw) /\ TypeofObject(raw)
    THEN LET u == Or(Or(PropUrl(raw), PropPath(raw)), Null)
         IN  IF Truthy(u) /\ u.t = "string" /\ ~StartsWith(u.s, cHttp)
             THEN [throws |-> FALSE, v |-> Str(base \o cSlash \o u.s)]
             ELSE M_Prefixed(u, base)
    ELSE [throws |-> FALSE, v |-> raw]
M_NormalizePrefixAll(raw, base) ==
    LET u == IF Truthy(raw) /\ TypeofObject(raw)
             THEN Or(Or(PropUrl(raw), PropPath(raw)), Null) ELSE raw
    IN  IF Truthy(u) /\ u.t = "string"
        THEN [throws |-> FALSE,
              v |-> Str(base \o (IF StartsWith(u.s, cSlash) THEN <<>> ELSE cSlash) \o u.s)]
        ELSE [throws |-> FALSE, v |-> u]
NormalizeFileRef(raw, base) ==
    IF Truthy(raw) /\ TypeofObject(raw)
    THEN LET u == Or(Or(PropUrl(raw), PropPath(raw)), Null)
         IN  IF ~Truthy(u) THEN [throws |-> FALSE, v |-> u]
             ELSE IF u.t # "string" THEN [throws |-> TRUE, v |-> Undef]
             ELSE IF ~StartsWith(u.s, cHttp)
             THEN [throws |-> FALSE,
                   v |-> Str(base \o (IF StartsWith(u.s, cSlash) THEN <<>> ELSE cSlash) \o u.s)]
             ELSE [throws |-> FALSE, v |-> u]
    ELSE [throws |-> FALSE, v |-> raw]

\* The catch block of a wrapper.
Failure(msg) == [success |-> FALSE, error |-> msg]

\* The outcome of `await this._callGradio5(...)`: a value or a thrown Error.
Returned(v) == [threw |-> FALSE, msg |-> "", v |-> v]
Thrown(msg) == [threw |-> TRUE, msg |-> msg, v |-> Undef]

chatToCode(o) ==
    IF o.threw THEN Failure(o.msg)
    ELSE IF IndexThrows(o.v) THEN Failure("TypeError")
    ELSE [success |-> TRUE, code |-> Idx(o.v, 0), status |-> Idx(o.v, 1),
          history |-> Idx(o.v, 2)]

M_generateMeshSwapped(o, base) ==
    IF o.threw THEN Failure(o.msg)
    ELSE IF IndexThrows(o.v) THEN Failure("TypeError")
    ELSE LET n == NormalizeFileRef(Idx(o.v, 0), base)
         IN  IF n.throws THEN Failure("TypeError")
             ELSE [success |-> (n.v # Null), meshUrl |-> n.v,
                   status |-> Idx(o.v, 2), meshInfo |-> Idx(o.v, 1)]
generateMesh(o, base) ==
    IF o.threw THEN Failure(o.msg)
    ELSE IF IndexThrows(o.v) THEN Failure("TypeError")
    ELSE LET n == NormalizeFileRef(Idx(o.v, 0), base)
         IN  IF n.throws THEN Failure("TypeError")
             ELSE [success |-> (n.v # Null), meshUrl |-> n.v,
                   status |-> Idx(o.v, 1), meshInfo |-> Idx(o.v, 2)]

parseParameters(o) ==
    IF o.threw THEN [success |-> FALSE, error |-> o.msg, params |-> EmptyObj]
    ELSE IF IndexThrows(o.v)
    THEN [success |-> FALSE, error |-> "TypeError", params |-> EmptyObj]
    ELSE LET p == JSONParse(Or(Idx(o.v, 0), Str(cBraces)))
         IN  IF ~p.ok
             THEN [success |-> FALSE, error |-> "SyntaxError", params |-> EmptyObj]
             ELSE [success |-> TRUE, params |-> p.v, status |-> Idx(o.v, 1)]

\* The inner try of validateCode / autoFixCode: JSON.parse of a truthy
\* field, [] when the field is falsy or is no JSON text.
M_ParseListFieldNoDefault(f) ==
    IF ~Truthy(f) THEN Undef ELSE JSONParse(f).v
ParseListField(f) ==
    IF ~Truthy(f) THEN Arr(<<>>)
    ELSE IF JSONParse(f).ok THEN JSONParse(f).v
    ELSE Arr(<<>>)

validateCode(o) ==
    IF o.threw THEN Failure(o.msg)
    ELSE IF IndexThrows(o.v) THEN Failure("TypeError")
    ELSE [success |-> TRUE, message |-> Idx(o.v, 0),
          warnings |-> ParseListField(Idx(o.v, 1))]

autoFixCode(o) ==
    IF o.threw THEN Failure(o.msg)
    ELSE IF IndexThrows(o.v) THEN Failure("TypeError")
    ELSE [success |-> TRUE, fixedCode |-> Idx(o.v, 0), status |-> Idx(o.v, 1),
          fixes |-> ParseListField(Idx(o.v, 2))]

exportSTL(o, base) ==
    IF o.threw THEN Failure(o.msg)
    ELSE IF IndexThrows(o.v) THEN Failure("TypeError")
    ELSE LET n == NormalizeFileRef(Idx(o.v, 0), base)
         IN  IF n.throws THEN Failure("TypeError")
             ELSE [success |-> (n.v # Null), fileUrl |-> n.v, status |-> Idx(o.v, 1)]

getComponentTemplate(o) ==
    IF o.threw THEN Failure(o.msg)
    ELSE IF IndexThrows(o.v) THEN Failure("TypeError")
    ELSE [success |-> TRUE, code |-> Idx(o.v, 0), description |-> Idx(o.v, 1)]

\* The envelope capability method m returns when _callGradio5 ended with
\* outcome o.
Envelope(m, o, base) ==
    CASE m = "chatToCode" -> chatToCode(o)
      [] m = "generateMesh" -> generateMesh(o, base)
      [] m = "parseParameters" -> parseParameters(o)
      [] m = "validateCode" -> validateCode(o)
      [] m = "autoFixCode" -> autoFixCode(o)
      [] m = "exportSTL" -> exportSTL(o, base)
      [] OTHER -> getComponentTemplate(o)

\* How the promise of capability method m settles: every wrapper body is one
\* try/catch whose two branches return, so the promise is always resolved.
M_SettleNoCatch(m, o, base) ==
    [state |-> IF o.threw THEN "rejected" ELSE "resolved",
     envelope |-> Envelope(m, o, base)]
Settle(m, o, base) ==
    [state |-> "resolved", envelope |-> Envelope(m, o, base)]

\* ------------------------------------------------------- the event stream
\* An event is the JSON object of a data line: {msg, output?, event_id}.
\* output is undefined when absent, else an object with a data property.
OutObj(d) == [t |-> "object", data |-> d]
Event(msg, output, id) == [msg |-> msg, output |-> output, id |-> id]
NoEvent == Event("", Undef, 0)

\* A server-side line of the stream.
CommentLine == [k |-> "comment", ev |-> NoEvent]
JunkLine == [k |-> "junk", ev |-> NoEvent]
DataLine(ev) == [k |-> "data", ev |-> ev]

\* The stream is text.  Its tokens: the 'data: ' prefix, the newline, a text
\* that is no JSON, free text of a line without the prefix, and the two
\* halves of the JSON text of an event (JSON.parse accepts the two halves
\* together and neither half alone).
Tok(t, ev) == [t |-> t, ev |-> ev]
Serialize(line) ==
    CASE line.k = "comment" -> <<Tok("txt", NoEvent), Tok("nl", NoEvent)>>
      [] line.k = "junk" ->
            <<Tok("pre", NoEvent), Tok("bad", NoEvent), Tok("nl", NoEvent)>>
      [] OTHER ->
            <<Tok("pre", NoEvent), Tok("j1", line.ev), Tok("j2", line.ev),
              Tok("nl", NoEvent)>>

RECURSIVE SerializeAll(_)
SerializeAll(ls) ==
    IF ls = <<>> THEN <<>> ELSE Serialize(Head(ls)) \o SerializeAll(Tail(ls))

\* text.split('\n'): the pieces between newlines, the last one included.
RECURSIVE SplitFrom(_, _)
SplitFrom(text, cur) ==
    IF text = <<>> THEN <<cur>>
    ELSE IF Head(text).t = "nl" THEN <<cur>> \o SplitFrom(Tail(text), <<>>)
    ELSE SplitFrom(Tail(text), Append(cur, Head(text)))
Split(text) == SplitFrom(text, <<>>)

\* line.startsWith('data: ')
HasDataPrefix(line) == Len(line) >= 1 /\ line[1].t = "pre"

\* JSON.parse(line.slice(6))
ParseEvent(line) ==
    LET rest == Tail(line)
    IN  IF Len(rest) = 2 /\ rest[1].t = "j1" /\ rest[2].t = "j2"
           /\ rest[1].ev = rest[2].ev
        THEN [ok |-> TRUE, ev |-> rest[1].ev]
        ELSE [ok |-> FALSE, ev |-> NoEvent]

\* data.msg === 'process_completed' && data.output
CompletedTag == "process_completed"
M_IsCompletionSpaceTag(data) ==
    data.msg = "process completed" /\ Truthy(data.output)
IsCompletion(data) == data.msg = CompletedTag /\ Truthy(data.output)

\* data.output.data
OutputData(data) == IF data.output.t = "object" THEN data.output.data ELSE Undef

\* The for loop over the lines of one chunk: the first line that has the
\* prefix, parses and is a completion event sets result and breaks.
RECURSIVE ScanLines(_)
ScanLines(lines) ==
    IF lines = <<>> THEN [hit |-> FALSE, result |-> Null, ev |-> NoEvent]
    ELSE LET line == Head(lines)
             p == IF HasDataPrefix(line) THEN ParseEvent(line)
                  ELSE [ok |-> FALSE, ev |-> NoEvent]
         IN  IF p.ok /\ IsCompletion(p.ev)
             THEN [hit |-> TRUE, result |-> OutputData(p.ev), ev |-> p.ev]
             ELSE ScanLines(Tail(lines))

\* decoder.decode(value), text.split('\n') and the for loop, on one chunk.
ScanChunk(chunk) == ScanLines(Split(chunk))

\* ------------------------------------------------------------------ state
VARIABLES
    baseUrl,        \* API.baseUrl
    apiPrefix,      \* API.apiPrefix
    isConnected,    \* API.isConnected
    sessionHash,    \* API.sessionHash
    createdHash,    \* the hash the constructor generated (history)
    pc,             \* per capability call: where its async function is suspended
    method,         \* per call: the capability method invoked
    ret,            \* per call: how _callGradio5 ended (history)
    envelope,       \* per call: the envelope the method resolved to
    trace,          \* per call: the outcome of each of its steps (history)
    net,            \* requests sent and not yet answered
    sent,           \* every request sent so far (history)
    stream,         \* per call: state of its queue/data body stream
    carry,          \* per call: text the server wrote that no read delivered yet
    reads,          \* per call: chunks its reads delivered so far
    taken,          \* per call: the event the loop took its result from (history)
    ref,            \* per call: first completion line of the delivered text (history)
    pending,        \* server: jobs accepted whose completion event is not yet emitted
    probePc,        \* stand-alone checkConnection(): idle or waiting for /config
    nProbes,        \* stand-alone probes started
    lastCheck,      \* outcome, stored and returned value of the last checkConnection,
                    \* and the api_prefix its /config response advertised
    dlPc,           \* downloadFile(): where it is suspended
    nDownloads,     \* downloads started
    dlEnvelope,     \* what the last downloadFile resolved to
    objectUrls,     \* blob object URLs created and not revoked
    lookups,        \* _getFnIndex lookups made directly (SpecFnIndex)
    unpacked,       \* a wrapper's unpacking of a result array (SpecUnpack)
    editorReady,    \* Editor.editor !== null (Monaco has loaded)
    editorCode,     \* what Editor.getCode() returns
    setCodeTimers,  \* codes of setCode calls waiting for the editor (setTimeout)
    currentCode,    \* App.currentCode
    currentParams,  \* App.currentParams
    paramSliders,   \* the sliders of #params-container: key -> [min, max]
    loading,        \* #viewport-loading has class 'active'
    viewportInfo,   \* text of #viewport-info
    toast,          \* the toast last shown: message and type
    genPc,          \* per _generateMesh run: where it is suspended
    genResult,      \* per _generateMesh run: the envelope api.generateMesh resolved to
    meshRequests,   \* the (code, paramsJson) of every api.generateMesh call (history)
    parsing,        \* _parseParameters runs awaiting api.parseParameters
    nClicks,        \* clicks on Parse, Validate, Export so far
    userSet,        \* slider values the user set since the code last changed (history)
    nSlides,        \* slider input events so far
    exportPc,       \* _exportSTL: where it is suspended
    validatePc,     \* _validateCode: where it is suspended
    validated,      \* the envelope the last api.validateCode resolved to (history)
    markers,        \* editor markers: cleared (clearMarkers called), warnings set
    history,        \* Chat.history
    typing,         \* ids of the typing indicators in #chat-messages, in order
    chatPc,         \* per _handleSend run: where it is suspended
    chatTyping,     \* per _handleSend run: its typingId
    chatResult,     \* per _handleSend run: the envelope api.chatToCode resolved to
    messages,       \* the messages appended to #chat-messages
    events,         \* generateMesh events dispatched so far (history)
    now             \* Date.now()

clientVars == <<baseUrl, apiPrefix, sessionHash, createdHash>>
callVars == <<pc, method, ret, envelope, trace>>
netVars == <<net, sent>>
streamVars == <<stream, carry, reads, taken, ref, pending>>
probeVars == <<probePc, nProbes>>
dlVars == <<dlPc, nDownloads, dlEnvelope, objectUrls>>
editorVars == <<editorReady, editorCode, setCodeTimers, currentCode>>
genVars == <<currentParams, paramSliders, loading, viewportInfo, genPc, genResult,
             meshRequests, parsing, userSet, nSlides>>
toolVars == <<exportPc, validatePc, validated, markers>>
chatVars == <<history, typing, chatPc, chatTyping, chatResult, messages, events, now>>
appVars == <<editorVars, genVars, toolVars, chatVars, toast, nClicks>>
vars == <<clientVars, isConnected, callVars, netVars, streamVars, probeVars,
          lastCheck, dlVars, lookups, unpacked, appVars>>

\* The api_prefix field of the body of a /config response: absent, or a
\* path segment other than the default the constructor sets.
DefaultPrefix == "/gradio_api"
NoPrefix == ""
ConfigPrefixes(outcome) ==
    IF outcome = "ok" THEN {NoPrefix, "/api/v2"} ELSE {NoPrefix}

\* Math.random().toString(36).substring(2, 15): some string.
SessionHashes == {"h1"}

HttpOutcomes == {"ok", "non2xx", "neterr"}

NoTrace ==
    [join |-> "none", joinParsed |-> FALSE, poll |-> "none",
     legacy |-> "none", legacyParsed |-> FALSE, legacyData |-> Undef,
     end |-> "none"]
NoRet == [threw |-> FALSE, msg |-> "", v |-> Undef, via |-> "none", id |-> 0]
NoEnvelope == [success |-> FALSE, error |-> "<pending>"]

\* The delivered text of a stream read as one text, whatever the chunks:
\* buf is the text since the last newline; hit and ev are the first line of
\* the text that has the prefix, parses, carries an output and is tagged
\* "process_completed"; hitSp and evSp the first such line tagged
\* "process completed".
SpaceTag == "process completed"
NoRef ==
    [buf |-> <<>>, hit |-> FALSE, ev |-> NoEvent, hitSp |-> FALSE, evSp |-> NoEvent]
RefLine(r, line) ==
    LET p == IF HasDataPrefix(line) THEN ParseEvent(line)
             ELSE [ok |-> FALSE, ev |-> NoEvent]
        full == p.ok /\ Truthy(p.ev.output)
    IN  [buf |-> line,
         hit |-> r.hit \/ (full /\ p.ev.msg = CompletedTag),
         ev |-> IF ~r.hit /\ full /\ p.ev.msg = CompletedTag THEN p.ev ELSE r.ev,
         hitSp |-> r.hitSp \/ (full /\ p.ev.msg = SpaceTag),
         evSp |-> IF ~r.hitSp /\ full /\ p.ev.msg = SpaceTag THEN p.ev ELSE r.evSp]
RECURSIVE RefFeed(_, _)
RefFeed(r, text) ==
    IF text = <<>> THEN r
    ELSE IF Head(text).t = "nl" THEN RefFeed([r EXCEPT !.buf = <<>>], Tail(text))
    ELSE RefFeed(RefLine(r, Append(r.buf, Head(text))), Tail(text))

\* A string of the application, written as its text.
Lit(s) == [t |-> "string", lit |-> s]

\* The code of the editor: Editor._getDefaultCode(), and code the chat
\* backend generates (both abbreviated to one letter).
cDefaultCode == <<"d">>
cChatCode == <<"c">>

\* No toast has been shown, no envelope received.
NoToast == [message |-> Undef, type |-> "none"]

\* No result array has been unpacked yet.
NoUnpacked ==
    [stage |-> "none", method |-> "none", raw |-> Undef, envelope |-> NoEnvelope,
     again |-> Undef]

Init ==
    /\ baseUrl = cBase
    /\ apiPrefix = DefaultPrefix
    /\ isConnected = FALSE
    /\ sessionHash \in SessionHashes
    /\ createdHash = sessionHash
    /\ pc = [c \in CallIds |-> "idle"]
    /\ method = [c \in CallIds |-> "none"]
    /\ ret = [c \in CallIds |-> NoRet]
    /\ envelope = [c \in CallIds |-> NoEnvelope]
    /\ trace = [c \in CallIds |-> NoTrace]
    /\ net = {}
    /\ sent = {}
    /\ stream = [c \in CallIds |-> "none"]
    /\ carry = [c \in CallIds |-> <<>>]
    /\ reads = [c \in CallIds |-> 0]
    /\ taken = [c \in CallIds |-> NoEvent]
    /\ ref = [c \in CallIds |-> NoRef]
    /\ pending = {}
    /\ probePc = "idle"
    /\ nProbes = 0
    /\ lastCheck = [outcome |-> "none", stored |-> FALSE, returned |-> FALSE,
                    advertised |-> NoPrefix]
    /\ dlPc = "idle"
    /\ nDownloads = 0
    /\ dlEnvelope = NoEnvelope
    /\ objectUrls = 0
    /\ lookups = <<>>
    /\ unpacked = NoUnpacked
    /\ editorReady = FALSE
    /\ editorCode = Str(<<>>)
    /\ setCodeTimers = <<>>
    /\ currentCode = Str(<<>>)
    /\ currentParams = [k \in {} |-> Undef]
    /\ paramSliders = [k \in {} |-> Undef]
    /\ loading = FALSE
    /\ viewportInfo = Lit("")
    /\ toast = NoToast
    /\ genPc = [g \in GenIds |-> "idle"]
    /\ genResult = [g \in GenIds |-> NoEnvelope]
    /\ meshRequests = <<>>
    /\ parsing = 0
    /\ nClicks = [parse |-> 0, validate |-> 0, export |-> 0]
    /\ userSet = [k \in {} |-> Undef]
    /\ nSlides = 0
    /\ exportPc = "idle"
    /\ validatePc = "idle"
    /\ validated = NoEnvelope
    /\ markers = [cleared |-> FALSE, warnings |-> 0]
    /\ history = Arr(<<>>)
    /\ typing = <<>>
    /\ chatPc = [s \in SendIds |-> "idle"]
    /\ chatTyping = [s \in SendIds |-> 0]
    /\ chatResult = [s \in SendIds |-> NoEnvelope]
    /\ messages = <<>>
    /\ events = 0
    /\ now = 0

\* --------------------------------------------------------------- requests
\* A request: who sent it, the endpoint, the prefix of its URL, the session
\* hash it carries (body or query), fn_index and data of its body, and n,
\* the number of requests this sender has made to this endpoint.
CallWho(c) == <<"call", c>>
Sends(who, ep) == {r \in sent : r.who = who /\ r.ep = ep}
Request(who, ep, prefix, hash, fn, data) ==
    [who |-> who, ep |-> ep, prefix |-> prefix, hash |-> hash, fn |-> fn,
     data |-> data, n |-> Cardinality(Sends(who, ep)) + 1]

\* fetch(`${this.baseUrl}/config`)
ConfigRequest(who) == Request(who, "/config", "", "", Undef, <<>>)

\* POST `${baseUrl}${apiPrefix}/queue/join` with
\* {data: args, fn_index: this._getFnIndex(fnName), session_hash: this.sessionHash}
M_SubmitRequestFreshHash(c) ==
    Request(CallWho(c), "/queue/join", apiPrefix,
            "h2",
            getFnIndex(FnName(method[c])), ArgsOf(method[c]))
SubmitRequest(c) ==
    Request(CallWho(c), "/queue/join", apiPrefix, sessionHash,
            getFnIndex(FnName(method[c])), ArgsOf(method[c]))

\* GET `${baseUrl}${apiPrefix}/queue/data?session_hash=${this.sessionHash}`
M_PollRequestOwnHash(c) ==
    Request(CallWho(c), "/queue/data", apiPrefix, method[c], Undef, <<>>)
PollRequest(c) ==
    Request(CallWho(c), "/queue/data", apiPrefix, sessionHash, Undef, <<>>)

\* POST `${baseUrl}${apiPrefix}/api/predict` with {data: args, fn_index}
LegacyRequest(c) ==
    Request(CallWho(c), "/api/predict", apiPrefix, "",
            getFnIndex(FnName(method[c])), ArgsOf(method[c]))

\* fetch(url) of downloadFile
FileRequest == Request(<<"download", 0>>, "file", "", "", Undef, <<>>)

Outstanding(who, ep) == {r \in net : r.who = who /\ r.ep = ep}

\* ---------------------------------------------------------- checkConnection
\* The checkConnection in effect (the second definition of the class body
\* replaces the first): isConnected = response.ok, false when fetch rejects;
\* the value stored is the value returned.
M_checkConnectionFirstDefinition(outcome) ==
    [isConnected |-> isConnected \/ (outcome = "ok"),
     returns |-> isConnected \/ (outcome = "ok"), throws |-> FALSE]
checkConnection(outcome) ==
    IF outcome = "neterr"
    THEN [isConnected |-> FALSE, returns |-> FALSE, throws |-> FALSE]
    ELSE [isConnected |-> (outcome = "ok"), returns |-> (outcome = "ok"),
          throws |-> FALSE]


\* ------------------------------------------------------- server emissions
\* Result arrays a job may produce.
ArrMesh == Arr(<<FileObj(Undef, Str(cPath)), Str(cOK), Str(cInfo)>>)
ArrJson == Arr(<<Str(cBraces), Str(cBrackets), Str(cNotJson)>>)
OutVals == {ArrMesh, ArrJson}

\* Lines the server may write to a stream of the session while the jobs P
\* are pending: comments, malformed data lines, status events, and for a
\* pending job its completion event (with an output whose data is an array
\* or is missing, or without output) or an event tagged with a space.
StatusEvent == Event("estimation", Undef, 0)
CompletionEvents(P) ==
    {Event(CompletedTag, OutObj(d), j) : d \in OutVals \cup {Undef}, j \in P}
        \cup {Event(CompletedTag, Undef, j) : j \in P}
        \cup {Event(SpaceTag, OutObj(ArrMesh), j) : j \in P}
LinesFor(P) ==
    {CommentLine, JunkLine, DataLine(StatusEvent)}
        \cup {DataLine(e) : e \in CompletionEvents(P)}

JobsOf(ls) == {ls[i].ev.id : i \in DOMAIN ls} \ {0}

\* The server correlates a stream with the jobs of its session: the jobs a
\* stream of call c may be told about are the pending jobs that were joined
\* under the session hash of c's queue/data request.
Eligible(c) ==
    {q.id : q \in {x \in pending :
                      \E r \in Sends(CallWho(c), "/queue/data") : r.hash = x.hash}}
NoRepeat(ls) ==
    \A i, j \in DOMAIN ls : (i # j /\ ls[i].ev.id # 0) => ls[i].ev.id # ls[j].ev.id
Emissions(P) ==
    {ls \in UNION {[1..n -> LinesFor(P)] : n \in 0..MaxLines} : NoRepeat(ls)}

\* ------------------------------------------------------------ call actions
Send(reqs) == net' = net \cup reqs /\ sent' = sent \cup reqs
Answer(who, ep, reqs) ==
    /\ net' = (net \ Outstanding(who, ep)) \cup reqs
    /\ sent' = sent \cup reqs

\* The capability method of call c settles with outcome o of _callGradio5.
Finish(c, o, via, id) ==
    LET s == Settle(method[c], o, baseUrl)
    IN  /\ pc' = [pc EXCEPT ![c] = IF s.state = "resolved" THEN "done" ELSE "rejected"]
        /\ envelope' = [envelope EXCEPT ![c] = s.envelope]
        /\ ret' = [ret EXCEPT ![c] =
                      [threw |-> o.threw, msg |-> o.msg, v |-> o.v, via |-> via,
                       id |-> id]]

\* What _callGradio5 sends once checkConnection has returned, and what it
\* sends once the queue/join body is parsed.
M_SubmitStepWithPoll(c) == {SubmitRequest(c), PollRequest(c)}
SubmitStep(c) == {SubmitRequest(c)}
PollStep(c) == {PollRequest(c)}
M_LegacyStepResubmits(c) == {SubmitRequest(c)}
LegacyStep(c) == {LegacyRequest(c)}

\* What _callGradio5 sends when queue/data answers non-2xx: nothing, it
\* throws 'Queue data error'.
M_PollNotOkStepLegacy(c) == {LegacyRequest(c)}
PollNotOkStep(c) == {}

\* What _callGradio5 sends once `await this.checkConnection()` has returned
\* connected: the value is discarded, the submission follows in any case.
M_AfterProbeStepOnlyConnected(c, connected) ==
    IF connected THEN SubmitStep(c) ELSE {}
AfterProbeStep(c, connected) == SubmitStep(c)

\* A capability method is called: the wrapper calls _callGradio5, which
\* awaits checkConnection(), which awaits fetch(/config).
Invoke(c, m) ==
    /\ pc[c] = "idle"
    /\ IF c = 1 THEN TRUE ELSE pc[c - 1] # "idle"
    /\ pc' = [pc EXCEPT ![c] = "probe"]
    /\ method' = [method EXCEPT ![c] = m]
    /\ Send({ConfigRequest(CallWho(c))})
    /\ UNCHANGED <<clientVars, isConnected, ret, envelope, trace, streamVars,
                   probeVars, lastCheck, dlVars, lookups,
                   unpacked, appVars>>

\* /config answers (or fails): checkConnection stores and returns, and
\* _callGradio5 goes on to POST queue/join.
ConfigResponse(c, outcome) ==
    /\ pc[c] = "probe"
    /\ Outstanding(CallWho(c), "/config") # {}
    /\ isConnected' = checkConnection(outcome).isConnected
    /\ \E adv \in ConfigPrefixes(outcome) :
          lastCheck' = [outcome |-> outcome, stored |-> isConnected',
                        returned |-> checkConnection(outcome).returns,
                        advertised |-> adv]
    /\ Answer(CallWho(c), "/config",
              AfterProbeStep(c, checkConnection(outcome).returns))
    /\ pc' = [pc EXCEPT ![c] = "submit"]
    /\ UNCHANGED <<clientVars, method, ret, envelope, trace, streamVars,
                   probeVars, dlVars, lookups,
                   unpacked, appVars>>

\* queue/join answers: fetch rejects (the wrapper catches), non-2xx (legacy
\* fallback), or 2xx (the job is queued; the body is parsed next).
SubmitResponse(c, outcome) ==
    /\ pc[c] = "submit"
    /\ Outstanding(CallWho(c), "/queue/join") # {}
    /\ trace' = [trace EXCEPT ![c].join = outcome]
    /\ CASE outcome = "neterr" ->
              /\ Finish(c, Thrown("Failed to fetch"), "throw", 0)
              /\ Answer(CallWho(c), "/queue/join", {})
              /\ UNCHANGED pending
         [] outcome = "non2xx" ->
              /\ pc' = [pc EXCEPT ![c] = "legacy"]
              /\ Answer(CallWho(c), "/queue/join", LegacyStep(c))
              /\ UNCHANGED <<ret, envelope, pending>>
         [] OTHER ->
              /\ pc' = [pc EXCEPT ![c] = "submitJson"]
              /\ Answer(CallWho(c), "/queue/join", {})
              /\ pending' = pending \cup
                    {[id |-> c, hash |-> r.hash] : r \in Outstanding(CallWho(c), "/queue/join")}
              /\ UNCHANGED <<ret, envelope>>
    /\ UNCHANGED <<clientVars, isConnected, method, stream, carry, reads, taken, ref,
                   probeVars, lastCheck, dlVars, lookups,
                   unpacked, appVars>>

\* await submitResponse.json(): throws on a body that is no JSON, else the
\* event id is read and the queue/data request is sent.
SubmitJson(c, ok) ==
    /\ pc[c] = "submitJson"
    /\ IF ok
       THEN /\ trace' = [trace EXCEPT ![c].joinParsed = TRUE]
            /\ pc' = [pc EXCEPT ![c] = "poll"]
            /\ Send(PollStep(c))
            /\ UNCHANGED <<ret, envelope>>
       ELSE /\ Finish(c, Thrown("SyntaxError"), "throw", 0)
            /\ UNCHANGED <<trace, netVars>>
    /\ UNCHANGED <<clientVars, isConnected, method, streamVars, probeVars,
                   lastCheck, dlVars, lookups,
                   unpacked, appVars>>

\* queue/data answers: fetch rejects, non-2xx (throws 'Queue data error'),
\* or 2xx: the body reader is taken and the first read is awaited.
PollResponse(c, outcome) ==
    /\ pc[c] = "poll"
    /\ Outstanding(CallWho(c), "/queue/data") # {}
    /\ trace' = [trace EXCEPT ![c].poll = outcome]
    /\ Answer(CallWho(c), "/queue/data",
              IF outcome = "non2xx" THEN PollNotOkStep(c) ELSE {})
    /\ CASE outcome = "neterr" ->
              /\ Finish(c, Thrown("Failed to fetch"), "throw", 0)
              /\ UNCHANGED stream
         [] outcome = "non2xx" ->
              /\ Finish(c, Thrown("Queue data error"), "throw", 0)
              /\ UNCHANGED stream
         [] OTHER ->
              /\ pc' = [pc EXCEPT ![c] = "read"]
              /\ stream' = [stream EXCEPT ![c] = "open"]
              /\ UNCHANGED <<ret, envelope>>
    /\ UNCHANGED <<clientVars, isConnected, method, carry, reads, taken, ref, pending,
                   probeVars, lastCheck, dlVars, lookups,
                   unpacked, appVars>>

\* After the read loop: a falsy result throws, a truthy one is returned.
NoResultMsg == "No result received from queue"
M_AfterLoopReturnsNull(result) == Returned(result)
AfterLoop(result) ==
    IF ~Truthy(result) THEN Thrown(NoResultMsg) ELSE Returned(result)

\* reader.read() resolves {done: true}: the server closed the stream after
\* writing all its text, or the reader was cancelled.  The loop breaks with
\* result still falsy.
ReadDone(c) ==
    /\ pc[c] = "read"
    /\ IF stream[c] = "open" THEN carry[c] = <<>> ELSE stream[c] = "cancelled"
    /\ stream' = [stream EXCEPT ![c] = IF stream[c] = "open" THEN "ended" ELSE @]
    /\ trace' = [trace EXCEPT ![c].end = "eof"]
    /\ Finish(c, AfterLoop(Null), "throw", 0)
    /\ UNCHANGED <<clientVars, isConnected, method, netVars, carry, reads, taken, ref,
                   pending, probeVars, lastCheck, dlVars, lookups,
                   unpacked, appVars>>

\* reader.read() rejects (the connection broke).
ReadError(c) ==
    /\ pc[c] = "read"
    /\ stream[c] = "open"
    /\ stream' = [stream EXCEPT ![c] = "errored"]
    /\ carry' = [carry EXCEPT ![c] = <<>>]
    /\ ref' = [ref EXCEPT ![c].buf = <<>>]
    /\ trace' = [trace EXCEPT ![c].end = "readerr"]
    /\ Finish(c, Thrown("network error"), "throw", 0)
    /\ UNCHANGED <<clientVars, isConnected, method, netVars, reads, taken, pending,
                   probeVars, lastCheck, dlVars, lookups,
                   unpacked, appVars>>

\* this.isConnected = true, before _callGradio5 and _callGradioLegacy return
\* their result; conn is the value the field held.
M_ConnectedAfterResultCleared(conn) == FALSE
M_ConnectedAfterResultKept(conn) == conn
ConnectedAfterResult(conn) == TRUE

\* reader.read() resolves with a chunk.  The server has written the lines ls
\* after the text not yet delivered; the chunk is the first k tokens of that
\* text, wherever line ends fall.  The chunk is decoded, split and scanned.
ReadChunk(c, ls, k) ==
    LET tx == carry[c] \o SerializeAll(ls)
        chunk == SubSeq(tx, 1, k)
        r == ScanChunk(chunk)
        o == AfterLoop(r.result)
    IN  /\ pc[c] = "read"
        /\ stream[c] = "open"
        /\ reads[c] < MaxReads
        /\ k \in 1..Len(tx)
        /\ reads[c] = MaxReads - 1 => k = Len(tx)
        /\ pending' = {q \in pending : q.id \notin JobsOf(ls)}
        /\ reads' = [reads EXCEPT ![c] = @ + 1]
        /\ IF r.hit
           THEN /\ stream' = [stream EXCEPT ![c] = "cancelled"]
                /\ carry' = [carry EXCEPT ![c] = <<>>]
                /\ ref' = [ref EXCEPT ![c] = [RefFeed(@, chunk) EXCEPT !.buf = <<>>]]
                /\ taken' = [taken EXCEPT ![c] = r.ev]
                /\ IF o.threw
                   THEN UNCHANGED <<pc, ret, envelope, trace, isConnected>>
                   ELSE /\ isConnected' = ConnectedAfterResult(isConnected)
                        /\ trace' = [trace EXCEPT ![c].end = "hit"]
                        /\ Finish(c, o, "queue", r.ev.id)
           ELSE /\ carry' = [carry EXCEPT ![c] = SubSeq(tx, k + 1, Len(tx))]
                /\ ref' = [ref EXCEPT ![c] = RefFeed(@, chunk)]
                /\ UNCHANGED <<pc, ret, envelope, trace, isConnected, stream, taken>>
        /\ UNCHANGED <<clientVars, method, netVars, probeVars, lastCheck,
                       dlVars, lookups,
                   unpacked, appVars>>

\* api/predict answers: fetch rejects, non-2xx (throws 'API error'), or 2xx.
LegacyResponse(c, outcome) ==
    /\ pc[c] = "legacy"
    /\ Outstanding(CallWho(c), "/api/predict") # {}
    /\ trace' = [trace EXCEPT ![c].legacy = outcome]
    /\ Answer(CallWho(c), "/api/predict", {})
    /\ CASE outcome = "neterr" -> Finish(c, Thrown("Failed to fetch"), "throw", 0)
         [] outcome = "non2xx" -> Finish(c, Thrown("API error"), "throw", 0)
         [] OTHER -> /\ pc' = [pc EXCEPT ![c] = "legacyJson"]
                     /\ UNCHANGED <<ret, envelope>>
    /\ UNCHANGED <<clientVars, isConnected, method, streamVars, probeVars,
                   lastCheck, dlVars, lookups,
                   unpacked, appVars>>

\* What _callGradioLegacy returns for the parsed body {data: d}.
M_LegacyReturnsBody(d) == Returned(OutObj(d))
LegacyReturn(d) == Returned(d)

\* await response.json() of the legacy response: throws on a body that is
\* no JSON; else isConnected = true and result.data is returned (undefined
\* when the body has no data).
LegacyJson(c, ok, d) ==
    /\ pc[c] = "legacyJson"
    /\ IF ok
       THEN /\ isConnected' = ConnectedAfterResult(isConnected)
            /\ trace' = [trace EXCEPT ![c].legacyParsed = TRUE,
                                      ![c].legacyData = d]
            /\ Finish(c, LegacyReturn(d), "legacy", 0)
       ELSE /\ d = Undef
            /\ Finish(c, Thrown("SyntaxError"), "throw", 0)
            /\ UNCHANGED <<isConnected, trace>>
    /\ UNCHANGED <<clientVars, method, netVars, streamVars, probeVars,
                   lastCheck, dlVars, lookups,
                   unpacked, appVars>>

\* --------------------------------------------- stand-alone checkConnection
ProbeStart ==
    /\ probePc = "idle"
    /\ nProbes < MaxProbes
    /\ probePc' = "wait"
    /\ nProbes' = nProbes + 1
    /\ Send({ConfigRequest(<<"probe", 0>>)})
    /\ UNCHANGED <<clientVars, isConnected, callVars, streamVars, lastCheck,
                   dlVars, lookups,
                   unpacked, appVars>>

ProbeDone(outcome) ==
    /\ probePc = "wait"
    /\ probePc' = IF checkConnection(outcome).throws THEN "rejected" ELSE "idle"
    /\ isConnected' = checkConnection(outcome).isConnected
    /\ \E adv \in ConfigPrefixes(outcome) :
          lastCheck' = [outcome |-> outcome, stored |-> isConnected',
                        returned |-> checkConnection(outcome).returns,
                        advertised |-> adv]
    /\ Answer(<<"probe", 0>>, "/config", {})
    /\ UNCHANGED <<clientVars, callVars, streamVars, nProbes, dlVars, lookups,
                   unpacked, appVars>>

\* ------------------------------------------------------------ downloadFile
DownloadStart ==
    /\ dlPc = "idle"
    /\ nDownloads < MaxDownloads
    /\ dlPc' = "fetch"
    /\ nDownloads' = nDownloads + 1
    /\ Send({FileRequest})
    /\ UNCHANGED <<clientVars, isConnected, callVars, streamVars, probeVars,
                   lastCheck, dlEnvelope, objectUrls, lookups,
                   unpacked, appVars>>

\* fetch(url) settles: a rejection is caught; any response, 2xx or not, goes
\* on to response.blob().
DownloadFetched(outcome) ==
    /\ dlPc = "fetch"
    /\ Answer(<<"download", 0>>, "file", {})
    /\ IF outcome = "neterr"
       THEN dlPc' = "idle" /\ dlEnvelope' = Failure("Failed to fetch")
       ELSE dlPc' = "blob" /\ UNCHANGED dlEnvelope
    /\ UNCHANGED <<clientVars, isConnected, callVars, streamVars, probeVars,
                   lastCheck, nDownloads, objectUrls, lookups,
                   unpacked, appVars>>

\* response.blob() settles, then the synchronous tail: createObjectURL, the
\* temporary link (which may throw), revokeObjectURL.
DownloadBlob(outcome) ==
    /\ dlPc = "blob"
    /\ dlPc' = "idle"
    /\ CASE outcome = "bloberr" ->
              dlEnvelope' = Failure("Failed to fetch") /\ UNCHANGED objectUrls
         [] outcome = "domerr" ->
              dlEnvelope' = Failure("DOM error") /\ objectUrls' = objectUrls + 1
         [] OTHER -> dlEnvelope' = [success |-> TRUE] /\ UNCHANGED objectUrls
    /\ UNCHANGED <<clientVars, isConnected, callVars, netVars, streamVars,
                   probeVars, lastCheck, nDownloads, lookups,
                   unpacked, appVars>>

\* ------------------------------------------------------------------- Spec
\* The client as a whole: overlapping capability calls, a stand-alone probe
\* and a download.  The calls are exportSTL calls (the method whose result
\* the app downloads), and the server writes at most one line per read: a status event or the completion event
\* of a pending job (delivered in any chunking).
MainMethods == {"exportSTL"}
MainEmissions(P) ==
    {ls \in Emissions(P) :
        /\ Len(ls) <= 1
        /\ \A i \in DOMAIN ls :
              ls[i] \in {DataLine(StatusEvent)}
                          \cup {DataLine(Event(CompletedTag, OutObj(ArrMesh), j)) : j \in P}}

Next ==
    \/ \E c \in CallIds, m \in MainMethods : Invoke(c, m)
    \/ \E c \in CallIds, o \in HttpOutcomes : ConfigResponse(c, o)
    \/ \E c \in CallIds, o \in HttpOutcomes : SubmitResponse(c, o)
    \/ \E c \in CallIds, ok \in BOOLEAN : SubmitJson(c, ok)
    \/ \E c \in CallIds, o \in HttpOutcomes : PollResponse(c, o)
    \/ \E c \in CallIds : ReadDone(c)
    \/ \E c \in CallIds : ReadError(c)
    \/ \E c \in CallIds : \E ls \in MainEmissions(Eligible(c)) :
          \E k \in 1..(Len(carry[c]) + Len(SerializeAll(ls))) : ReadChunk(c, ls, k)
    \/ \E c \in CallIds, o \in HttpOutcomes : LegacyResponse(c, o)
    \/ \E c \in CallIds, ok \in BOOLEAN, d \in OutVals \cup {Undef} :
          LegacyJson(c, ok, d)
    \/ ProbeStart
    \/ \E o \in HttpOutcomes : ProbeDone(o)
    \/ DownloadStart
    \/ \E o \in HttpOutcomes : DownloadFetched(o)
    \/ \E o \in {"ok", "bloberr", "domerr"} : DownloadBlob(o)

Spec == Init /\ [][Next]_vars

\* Strictly serialized calls: a call starts only after the previous call has
\* resolved.
NextSerial ==
    \/ \E c \in CallIds, m \in MainMethods :
          (IF c = 1 THEN TRUE ELSE pc[c - 1] = "done") /\ Invoke(c, m)
    \/ \E c \in CallIds, o \in HttpOutcomes : ConfigResponse(c, o)
    \/ \E c \in CallIds, o \in HttpOutcomes : SubmitResponse(c, o)
    \/ \E c \in CallIds, ok \in BOOLEAN : SubmitJson(c, ok)
    \/ \E c \in CallIds, o \in HttpOutcomes : PollResponse(c, o)
    \/ \E c \in CallIds : ReadDone(c)
    \/ \E c \in CallIds : ReadError(c)
    \/ \E c \in CallIds : \E ls \in MainEmissions(Eligible(c)) :
          \E k \in 1..(Len(carry[c]) + Len(SerializeAll(ls))) : ReadChunk(c, ls, k)
    \/ \E c \in CallIds, o \in HttpOutcomes : LegacyResponse(c, o)
    \/ \E c \in CallIds, ok \in BOOLEAN, d \in OutVals \cup {Undef} :
          LegacyJson(c, ok, d)

SpecSerial == Init /\ [][NextSerial]_vars

\* One capability call, of any of the seven methods, against a server that
\* writes any lines to the stream.
NextCall ==
    \/ \E m \in Methods : Invoke(1, m)
    \/ \E o \in HttpOutcomes : ConfigResponse(1, o)
    \/ \E o \in HttpOutcomes : SubmitResponse(1, o)
    \/ \E ok \in BOOLEAN : SubmitJson(1, ok)
    \/ \E o \in HttpOutcomes : PollResponse(1, o)
    \/ ReadDone(1)
    \/ ReadError(1)
    \/ \E ls \in Emissions(Eligible(1)) :
          \E k \in 1..(Len(carry[1]) + Len(SerializeAll(ls))) : ReadChunk(1, ls, k)
    \/ \E o \in HttpOutcomes : LegacyResponse(1, o)
    \/ \E ok \in BOOLEAN, d \in OutVals \cup {Undef} : LegacyJson(1, ok, d)

SpecCall == Init /\ [][NextCall]_vars

\* The same call under the scheduling the runtime gives it: every fetch and
\* every body read of a response settles, and a read on a cancelled reader
\* resolves at once.  Nothing makes the server write to, or close, an open
\* stream.
Settles ==
    \/ \E o \in HttpOutcomes : ConfigResponse(1, o)
    \/ \E o \in HttpOutcomes : SubmitResponse(1, o)
    \/ \E ok \in BOOLEAN : SubmitJson(1, ok)
    \/ \E o \in HttpOutcomes : PollResponse(1, o)
    \/ \E o \in HttpOutcomes : LegacyResponse(1, o)
    \/ \E ok \in BOOLEAN, d \in OutVals \cup {Undef} : LegacyJson(1, ok, d)
    \/ stream[1] = "cancelled" /\ ReadDone(1)

SpecCallLive == Init /\ [][NextCall]_vars /\ WF_vars(Settles)

\* _getFnIndex called directly with any name.
Lookup(name) ==
    /\ Len(lookups) < MaxLookups
    /\ lookups' = Append(lookups, [name |-> name, index |-> getFnIndex(name)])
    /\ UNCHANGED <<clientVars, isConnected, callVars, netVars, streamVars,
                   probeVars, lastCheck, dlVars, unpacked, appVars>>

NextFnIndex == \E name \in LookupNames : Lookup(name)

SpecFnIndex == Init /\ [][NextFnIndex]_vars

\* ------------------------------------------------- unpacking result arrays
\* File-reference strings: an absolute http URL, a path with and without a
\* leading slash, a URL of another scheme, and a relative path whose first
\* letters are 'http'.
cAbs == <<"h", "t", "t", "p", ":", "/", "/", "c", "/", "m">>
cRel == <<"f", "/", "m">>
cBlob == <<"b", "l", "o", "b", ":", "x">>
cHttpDir == <<"h", "t", "t", "p", "d", "/", "m">>
cList == <<"[", "1", ",", "2", "]">>
RefStrings == {Str(cAbs), Str(cPath), Str(cRel), Str(cBlob), Str(cHttpDir)}

\* The first result of generate_mesh / export_stl: a Gradio file object
\* with url and/or path, a plain string, or nothing.
FileRefs ==
    {FileObj(u, p) : u \in RefStrings \cup {Undef}, p \in RefStrings \cup {Undef}}
        \cup RefStrings \cup {Null, Undef}

\* The JSON-carrying fields of validate_code / auto_fix_code results.
JsonFields ==
    {Undef, Str(<<>>), Str(cNotJson), Str(cBrackets), Str(cList), Str(cBraces)}

ResultArrays ==
    {Arr(<<f, Str(cOK), Str(cInfo)>>) : f \in FileRefs}
        \cup {Arr(<<Str(cOK), w, f>>) : w \in JsonFields, f \in JsonFields}

FileMethods == {"generateMesh", "exportSTL"}

\* The meshUrl / fileUrl of an envelope that has one.
HasUrl(m, env) ==
    IF m = "generateMesh" THEN "meshUrl" \in DOMAIN env ELSE "fileUrl" \in DOMAIN env
UrlOf(m, env) == IF m = "generateMesh" THEN env.meshUrl ELSE env.fileUrl

\* _callGradio5 returned arr to wrapper m, which unpacks it into its envelope.
Unpack(m, arr) ==
    /\ unpacked.stage = "none"
    /\ unpacked' = [stage |-> "once", method |-> m, raw |-> arr,
                    envelope |-> Settle(m, Returned(arr), baseUrl).envelope,
                    again |-> Undef]
    /\ UNCHANGED <<clientVars, isConnected, callVars, netVars, streamVars,
                   probeVars, lastCheck, dlVars, lookups, appVars>>

\* The URL a file wrapper returned comes back as the first result of a
\* later call of the same wrapper (the normalization is applied to its own
\* output).
UnpackAgain ==
    /\ unpacked.stage = "once"
    /\ unpacked.method \in FileMethods
    /\ HasUrl(unpacked.method, unpacked.envelope)
    /\ LET m == unpacked.method
           u == UrlOf(m, unpacked.envelope)
           e == Settle(m, Returned(Arr(<<u, Str(cOK), Str(cInfo)>>)), baseUrl).envelope
       IN  unpacked' = [unpacked EXCEPT !.stage = "twice",
                                        !.again = IF HasUrl(m, e) THEN UrlOf(m, e)
                                                  ELSE Str(<<>>)]
    /\ UNCHANGED <<clientVars, isConnected, callVars, netVars, streamVars,
                   probeVars, lastCheck, dlVars, lookups, appVars>>

NextUnpack ==
    \/ \E m \in Methods, arr \in ResultArrays : Unpack(m, arr)
    \/ UnpackAgain

SpecUnpack == Init /\ [][NextUnpack]_vars

\* --------------------------------------------- the application: App, Chat
\* The handlers of App and Chat that call the API client: generation,
\* parameter parsing and sliders, export, validation and the chat.  toast
\* and viewportInfo hold what these handlers showed last; the connection
\* check of the App constructor, the library dialog and the viewport
\* controls are left out.
\* Results the backend may give the calls the application makes.
cParamsList == <<"{", "\"", "k", "\"", ":", "[", "2", ",", "0", ",", "5", "]", "}">>
cParamsScalar == <<"{", "\"", "k", "\"", ":", "4", "}">>
cInvalid == <<"E">>
AppArrays(m) ==
    CASE m \in FileMethods -> {ArrMesh, Arr(<<Null, Str(cOK), Str(cInfo)>>)}
      [] m = "parseParameters" ->
            {Arr(<<Str(p), Str(cOK)>>) :
                p \in {cParamsList, cParamsScalar, cBraces, cNotJson}}
      [] m = "validateCode" ->
            {Arr(<<Str(msg), Str(w)>>) : msg \in {cOK, cInvalid}, w \in {cList, cNotJson}}
      [] OTHER ->
            {Arr(<<c, Str(cOK), h>>) :
                c \in {Str(cChatCode), Str(<<>>)}, h \in {Arr(<<Num(1)>>), Undef}}

\* How _callGradio5 may end under a call of method m, and the envelope the
\* awaiting handler then receives.
AppOutcomes(m) == {Returned(a) : a \in AppArrays(m)} \cup {Thrown(NoResultMsg)}
Result(m, o) == Settle(m, o, baseUrl).envelope

\* result.<f> of an envelope (undefined when the envelope has no such field)
\* and result.error || dflt.
Prop(env, f) == IF f \in DOMAIN env THEN env[f] ELSE Undef
ErrorOr(env, dflt) ==
    IF "error" \in DOMAIN env /\ env.error # "" THEN Lit(env.error) ELSE Lit(dflt)

ShowToast(message, type) == [message |-> message, type |-> type]

\* Monaco has loaded: Editor._createEditor creates the editor with the
\* default code.
EditorCreated ==
    /\ ~editorReady
    /\ editorReady' = TRUE
    /\ editorCode' = Str(cDefaultCode)
    /\ UNCHANGED <<setCodeTimers, currentCode, genVars, toolVars, chatVars, toast,
                   nClicks>>
    /\ UNCHANGED <<clientVars, isConnected, callVars, netVars, streamVars,
                   probeVars, lastCheck, dlVars, lookups, unpacked>>

\* Editor.setCode(code): setValue, whose change event sets App.currentCode;
\* before the editor exists, a timer that retries.
SetCode(do, code) ==
    /\ editorCode' = IF do /\ editorReady THEN code ELSE editorCode
    /\ currentCode' = IF do /\ editorReady THEN code ELSE currentCode
    /\ setCodeTimers' =
          IF do /\ ~editorReady THEN Append(setCodeTimers, code) ELSE setCodeTimers
    /\ UNCHANGED editorReady

\* The slider values that still count as the user's after the editor took
\* code: none when the code changed.
UserSetAfter(code) == IF code = editorCode THEN userSet ELSE [k \in {} |-> Undef]

\* The timer of a setCode call fires once the editor exists.
SetCodeRetry ==
    /\ editorReady
    /\ setCodeTimers # <<>>
    /\ editorCode' = Head(setCodeTimers)
    /\ currentCode' = Head(setCodeTimers)
    /\ setCodeTimers' = Tail(setCodeTimers)
    /\ userSet' = UserSetAfter(Head(setCodeTimers))
    /\ UNCHANGED <<editorReady, currentParams, paramSliders, loading, viewportInfo,
                   genPc, genResult, meshRequests, parsing, nSlides, toolVars,
                   chatVars, toast, nClicks>>
    /\ UNCHANGED <<clientVars, isConnected, callVars, netVars, streamVars,
                   probeVars, lastCheck, dlVars, lookups, unpacked>>

\* App._generateMesh(code) up to its await, as run g: without code a toast
\* and nothing else; with code the loading indicator is switched on and
\* api.generateMesh is called with JSON.stringify(this.currentParams).
\* us is the record of the user's slider values at this moment.
FreeGens == {g \in GenIds : genPc[g] = "idle" /\ \A h \in 1..(g - 1) : genPc[h] # "idle"}
CodeToUse(code) == Or(code, editorCode)
GenerateMesh(do, g, code, us) ==
    LET go == do /\ Truthy(CodeToUse(code))
    IN  /\ loading' = IF go THEN TRUE ELSE loading
        /\ viewportInfo' = IF go THEN Lit("Generating mesh...") ELSE viewportInfo
        /\ genPc' = IF go THEN [genPc EXCEPT ![g] = "api"] ELSE genPc
        /\ meshRequests' =
              IF go
              THEN Append(meshRequests,
                          [code |-> CodeToUse(code),
                           paramsJson |-> JSONStringify(currentParams),
                           userSet |-> us])
              ELSE meshRequests

\* Click on Regenerate: _regenerateMesh calls _generateMesh(editor.getCode()).
RegenerateClick(g) ==
    /\ g \in FreeGens
    /\ GenerateMesh(TRUE, g, editorCode, userSet)
    /\ toast' = IF Truthy(editorCode) THEN toast
                ELSE ShowToast(Lit("No code to execute"), "error")
    /\ UNCHANGED <<editorVars, currentParams, paramSliders, genResult, parsing,
                   userSet, nSlides, toolVars, chatVars, nClicks>>
    /\ UNCHANGED <<clientVars, isConnected, callVars, netVars, streamVars,
                   probeVars, lastCheck, dlVars, lookups, unpacked>>

\* App._parseParameters up to its await: nothing without code.
StartParse(do) == parsing' = IF do /\ Truthy(editorCode) THEN parsing + 1 ELSE parsing

\* api.generateMesh of run g resolves: the loading indicator is switched
\* off; with a mesh URL the run goes on to viewer.loadGLB.
GenSettled(g, o) ==
    LET result == Result("generateMesh", o)
        ok == result.success /\ Truthy(result.meshUrl)
    IN  /\ genPc[g] = "api"
        /\ genResult' = [genResult EXCEPT ![g] = result]
        /\ loading' = FALSE
        /\ genPc' = [genPc EXCEPT ![g] = IF ok THEN "glb" ELSE "done"]
        /\ viewportInfo' =
              IF ok THEN viewportInfo
              ELSE Or(Prop(result, "status"), Lit("Generation failed"))
        /\ toast' = IF ok THEN toast
                    ELSE ShowToast(ErrorOr(result, "Mesh generation failed"), "error")
        /\ UNCHANGED <<editorVars, currentParams, paramSliders, meshRequests, parsing,
                       userSet, nSlides, toolVars, chatVars, nClicks>>
        /\ UNCHANGED <<clientVars, isConnected, callVars, netVars, streamVars,
                       probeVars, lastCheck, dlVars, lookups, unpacked>>

\* viewer.loadGLB of run g settles: loaded, the run shows the mesh info and
\* calls _parseParameters (not awaited); rejected, the catch block runs.
GenLoaded(g, loaded) ==
    /\ genPc[g] = "glb"
    /\ genPc' = [genPc EXCEPT ![g] = "done"]
    /\ loading' = IF loaded THEN loading ELSE FALSE
    /\ viewportInfo' = IF loaded THEN Prop(genResult[g], "meshInfo") ELSE Lit("Error")
    /\ toast' = IF loaded THEN ShowToast(Lit("Mesh generated!"), "success")
                ELSE ShowToast(Lit("Error: load"), "error")
    /\ StartParse(loaded)
    /\ UNCHANGED <<editorVars, currentParams, paramSliders, genResult, meshRequests,
                   userSet, nSlides, toolVars, chatVars, nClicks>>
    /\ UNCHANGED <<clientVars, isConnected, callVars, netVars, streamVars,
                   probeVars, lastCheck, dlVars, lookups, unpacked>>

\* Click on Parse.
ParseClick ==
    /\ nClicks.parse < MaxClicks
    /\ nClicks' = [nClicks EXCEPT !.parse = @ + 1]
    /\ StartParse(TRUE)
    /\ UNCHANGED <<editorVars, currentParams, paramSliders, loading, viewportInfo,
                   genPc, genResult, meshRequests, userSet, nSlides, toolVars,
                   chatVars, toast>>
    /\ UNCHANGED <<clientVars, isConnected, callVars, netVars, streamVars,
                   probeVars, lastCheck, dlVars, lookups, unpacked>>

\* App._getDefaultParamValues(params)
GetDefaultParamValues(params) ==
    LET e == ObjectEntries(params)
    IN  [k \in DOMAIN e |->
            IF e[k].t = "array" /\ Len(e[k].items) >= 1 THEN e[k].items[1] ELSE e[k]]

\* App._renderParameters(params): one range input per key, from minVal to
\* maxVal in steps of (maxVal - minVal) / 100 (a range input without a
\* numeric min / max runs from 0 to 100).
SliderRanges(params) ==
    LET e == ObjectEntries(params)
        lo(s) == IF s.t = "array" THEN Idx(s, 1) ELSE Num(0)
        hi(s) == IF s.t = "array" THEN Idx(s, 2) ELSE Num(s.n * 2)
    IN  [k \in DOMAIN e |->
            [min |-> IF lo(e[k]).t = "number" THEN lo(e[k]).n ELSE 0,
             max |-> IF hi(e[k]).t = "number" THEN hi(e[k]).n ELSE 100]]

\* An api.parseParameters call of _parseParameters resolves: with success
\* and at least one key, currentParams becomes the defaults and the sliders
\* are rendered anew.
ParseSettled(o) ==
    LET result == Result("parseParameters", o)
        ok == result.success /\ DOMAIN ObjectEntries(result.params) # {}
    IN  /\ parsing > 0
        /\ parsing' = parsing - 1
        /\ currentParams' = IF ok THEN GetDefaultParamValues(result.params)
                            ELSE currentParams
        /\ paramSliders' = IF ok THEN SliderRanges(result.params) ELSE paramSliders
        /\ UNCHANGED <<editorVars, loading, viewportInfo, genPc, genResult,
                       meshRequests, userSet, nSlides, toolVars, chatVars, toast,
                       nClicks>>
        /\ UNCHANGED <<clientVars, isConnected, callVars, netVars, streamVars,
                       probeVars, lastCheck, dlVars, lookups, unpacked>>

\* The user moves the slider of key k to the value whose text is ch (a
\* value of the slider's range that its step allows): the input listener
\* stores parseFloat(e.target.value) in currentParams[k].
SlideChars == {"3", "4"}
ParseFloat(ch) == Num(DigitVal(ch))
SlideInput(k, ch) ==
    LET value == ParseFloat(ch)
        r == paramSliders[k]
        Put(f) == [x \in DOMAIN f \cup {k} |-> IF x = k THEN value ELSE f[x]]
    IN  /\ k \in DOMAIN paramSliders
        /\ nSlides < MaxSlides
        /\ r.min <= value.n /\ value.n <= r.max
        /\ r.max > r.min /\ ((value.n - r.min) * 100) % (r.max - r.min) = 0
        /\ nSlides' = nSlides + 1
        /\ currentParams' = Put(currentParams)
        /\ userSet' = Put(userSet)
        /\ UNCHANGED <<editorVars, paramSliders, loading, viewportInfo, genPc,
                       genResult, meshRequests, parsing, toolVars, chatVars, toast,
                       nClicks>>
        /\ UNCHANGED <<clientVars, isConnected, callVars, netVars, streamVars,
                       probeVars, lastCheck, dlVars, lookups, unpacked>>

\* Chat._handleSend with a non-empty message, as run s, up to its await (an
\* empty message returns before anything is done): the user message and a
\* typing indicator with id 'typing-' + Date.now() are appended.
Message(text, type, isError) == [text |-> text, type |-> type, isError |-> isError]
ChatSend(s, t) ==
    /\ chatPc[s] = "idle"
    /\ \A h \in 1..(s - 1) : chatPc[h] # "idle"
    /\ t \in {now, now + 1}
    /\ t <= MaxSends
    /\ now' = t
    /\ messages' = Append(messages, Message(Lit("message"), "user", FALSE))
    /\ typing' = Append(typing, t)
    /\ chatTyping' = [chatTyping EXCEPT ![s] = t]
    /\ chatPc' = [chatPc EXCEPT ![s] = "api"]
    /\ UNCHANGED <<editorVars, genVars, toolVars, history, chatResult, events, toast,
                   nClicks>>
    /\ UNCHANGED <<clientVars, isConnected, callVars, netVars, streamVars,
                   probeVars, lastCheck, dlVars, lookups, unpacked>>

\* Chat._removeTyping(id): the first element with that id is removed.
RECURSIVE RemoveTyping(_, _)
RemoveTyping(ids, id) ==
    IF ids = <<>> THEN <<>>
    ELSE IF Head(ids) = id THEN Tail(ids)
    ELSE <<Head(ids)>> \o RemoveTyping(Tail(ids), id)

\* Chat.history after result arrived.
M_HistoryAfterAnyResult(result, old) == Or(Prop(result, "history"), Arr(<<>>))
HistoryAfter(result, old) ==
    IF result.success THEN Or(result.history, Arr(<<>>)) ELSE old

\* api.chatToCode of run s resolves: the typing indicator is removed; on
\* success the history is replaced, the status appended, and code, if any,
\* is put into the editor and sent to the generateMesh listener of App
\* (which runs _generateMesh(code) before dispatchEvent returns); on
\* failure only the error message is appended.
ChatSettled(s, o, g) ==
    LET result == Result("chatToCode", o)
        hasCode == result.success /\ Truthy(result.code)
        code == Prop(result, "code")
    IN  /\ chatPc[s] = "api"
        /\ hasCode => g \in FreeGens
        /\ ~hasCode => g = 1
        /\ chatPc' = [chatPc EXCEPT ![s] = "done"]
        /\ chatResult' = [chatResult EXCEPT ![s] = result]
        /\ typing' = RemoveTyping(typing, chatTyping[s])
        /\ history' = HistoryAfter(result, history)
        /\ messages' =
              Append(messages,
                     IF result.success THEN Message(result.status, "assistant", FALSE)
                     ELSE Message(Lit("Error: " \o result.error), "assistant", TRUE))
        /\ SetCode(hasCode, code)
        /\ userSet' = IF hasCode /\ editorReady THEN UserSetAfter(code) ELSE userSet
        /\ events' = IF hasCode THEN events + 1 ELSE events
        /\ GenerateMesh(hasCode, g, code, userSet')
        /\ UNCHANGED <<currentParams, paramSliders, genResult, parsing, nSlides,
                       toolVars, chatTyping, now, toast, nClicks>>
        /\ UNCHANGED <<clientVars, isConnected, callVars, netVars, streamVars,
                       probeVars, lastCheck, dlVars, lookups, unpacked>>

\* Click on Export: App._exportSTL up to its first await.
ExportClick ==
    /\ nClicks.export < MaxClicks
    /\ exportPc = "idle"
    /\ nClicks' = [nClicks EXCEPT !.export = @ + 1]
    /\ exportPc' = IF Truthy(editorCode) THEN "api" ELSE "idle"
    /\ toast' = IF Truthy(editorCode) THEN ShowToast(Lit("Generating STL..."), "info")
                ELSE ShowToast(Lit("No code to export"), "error")
    /\ UNCHANGED <<editorVars, genVars, validatePc, validated, markers, chatVars>>
    /\ UNCHANGED <<clientVars, isConnected, callVars, netVars, streamVars,
                   probeVars, lastCheck, dlVars, lookups, unpacked>>

\* api.exportSTL resolves: with a file URL, api.downloadFile is called (its
\* fetch is sent) and awaited; else the error toast.
ExportSettled(o) ==
    LET result == Result("exportSTL", o)
        ok == result.success /\ Truthy(result.fileUrl)
    IN  /\ exportPc = "api"
        /\ dlPc = "idle"
        /\ exportPc' = IF ok THEN "download" ELSE "done"
        /\ dlPc' = IF ok THEN "fetch" ELSE dlPc
        /\ nDownloads' = IF ok THEN nDownloads + 1 ELSE nDownloads
        /\ Send(IF ok THEN {FileRequest} ELSE {})
        /\ toast' = IF ok THEN toast
                    ELSE ShowToast(ErrorOr(result, "Export failed"), "error")
        /\ UNCHANGED <<editorVars, genVars, validatePc, validated, markers, chatVars,
                       nClicks>>
        /\ UNCHANGED <<clientVars, isConnected, callVars, streamVars, probeVars,
                       lastCheck, dlEnvelope, objectUrls, lookups, unpacked>>

\* api.downloadFile has resolved (it never rejects): its envelope is not
\* looked at, the success toast is shown.
ExportDownloaded ==
    /\ exportPc = "download"
    /\ dlPc = "idle"
    /\ exportPc' = "done"
    /\ toast' = ShowToast(Lit("STL downloaded!"), "success")
    /\ UNCHANGED <<editorVars, genVars, validatePc, validated, markers, chatVars,
                   nClicks>>
    /\ UNCHANGED <<clientVars, isConnected, callVars, netVars, streamVars,
                   probeVars, lastCheck, dlVars, lookups, unpacked>>

\* Click on Validate: App._validateCode up to its await; nothing without code.
ValidateClick ==
    /\ nClicks.validate < MaxClicks
    /\ validatePc = "idle"
    /\ nClicks' = [nClicks EXCEPT !.validate = @ + 1]
    /\ validatePc' = IF Truthy(editorCode) THEN "api" ELSE "idle"
    /\ UNCHANGED <<editorVars, genVars, exportPc, validated, markers, chatVars, toast>>
    /\ UNCHANGED <<clientVars, isConnected, callVars, netVars, streamVars,
                   probeVars, lastCheck, dlVars, lookups, unpacked>>

\* The markers after the branches of _validateCode: clearMarkers when
\* result.isValid is truthy, then one setWarning per element of
\* result.warnings.
WarningCount(w) == IF Truthy(w) /\ w.t = "array" THEN Len(w.items) ELSE 0
IsValid(result) == Truthy(Prop(result, "isValid"))

\* api.validateCode resolves.
ValidateSettled(o) ==
    LET result == Result("validateCode", o)
    IN  /\ validatePc = "api"
        /\ validatePc' = "done"
        /\ validated' = result
        /\ toast' = IF ~result.success THEN toast
                    ELSE ShowToast(result.message,
                                   IF IsValid(result) THEN "success" ELSE "error")
        /\ markers' =
              IF ~result.success THEN markers
              ELSE [cleared |-> markers.cleared \/ IsValid(result),
                    warnings |-> (IF IsValid(result) THEN 0 ELSE markers.warnings)
                                    + WarningCount(result.warnings)]
        /\ UNCHANGED <<editorVars, genVars, exportPc, chatVars, nClicks>>
        /\ UNCHANGED <<clientVars, isConnected, callVars, netVars, streamVars,
                       probeVars, lastCheck, dlVars, lookups, unpacked>>

\* The application: the editor loading, the Regenerate and Parse buttons,
\* the parameter sliders and one chat message, with the backend calls they
\* make resolving in any order.
NextApp ==
    \/ EditorCreated
    \/ SetCodeRetry
    \/ \E g \in GenIds : RegenerateClick(g)
    \/ \E g \in GenIds, o \in AppOutcomes("generateMesh") : GenSettled(g, o)
    \/ \E g \in GenIds, loaded \in BOOLEAN : GenLoaded(g, loaded)
    \/ ParseClick
    \/ \E o \in AppOutcomes("parseParameters") : ParseSettled(o)
    \/ \E k \in DOMAIN paramSliders, ch \in SlideChars : SlideInput(k, ch)
    \/ \E t \in 0..MaxSends : ChatSend(1, t)
    \/ \E o \in AppOutcomes("chatToCode"), g \in GenIds : ChatSettled(1, o, g)

SpecApp == Init /\ [][NextApp]_vars

\* The chat: overlapping sends, and the generations and parameter parses
\* their results start.
NextChat ==
    \/ EditorCreated
    \/ SetCodeRetry
    \/ \E s \in SendIds, t \in 0..MaxSends : ChatSend(s, t)
    \/ \E s \in SendIds, o \in AppOutcomes("chatToCode"), g \in GenIds :
          ChatSettled(s, o, g)
    \/ \E g \in GenIds, o \in AppOutcomes("generateMesh") : GenSettled(g, o)
    \/ \E g \in GenIds, loaded \in BOOLEAN : GenLoaded(g, loaded)
    \/ \E o \in AppOutcomes("parseParameters") : ParseSettled(o)

SpecChat == Init /\ [][NextChat]_vars

\* The Validate and Export buttons, with the download Export starts.
NextTools ==
    \/ EditorCreated
    \/ ExportClick
    \/ \E o \in AppOutcomes("exportSTL") : ExportSettled(o)
    \/ \E o \in HttpOutcomes : DownloadFetched(o)
    \/ \E o \in {"ok", "bloberr", "domerr"} : DownloadBlob(o)
    \/ ExportDownloaded
    \/ ValidateClick
    \/ \E o \in AppOutcomes("validateCode") : ValidateSettled(o)

SpecTools == Init /\ [][NextTools]_vars

\* ----------------------------------------------------------------- claims
Who(c) == CallWho(c)
Done(c) == pc[c] = "done"

\* A step of call c threw: the queue/join fetch failed or its body did not
\* parse, the queue/data fetch failed or was non-2xx, the stream read failed
\* or ended without a result, the legacy fetch failed, was non-2xx or did
\* not parse, or the returned value cannot be indexed.
StepThrew(c) ==
    \/ trace[c].join = "neterr"
    \/ trace[c].join = "ok" /\ ~trace[c].joinParsed
    \/ trace[c].poll \in {"neterr", "non2xx"}
    \/ trace[c].end \in {"eof", "readerr"}
    \/ trace[c].legacy \in {"neterr", "non2xx"}
    \/ trace[c].legacy = "ok" /\ ~trace[c].legacyParsed
    \/ ret[c].via \in {"queue", "legacy"} /\ IndexThrows(ret[c].v)

\* C1 as stated: no capability call ever rejects, and a call in which any
\* step failed -- the config probe and the queue submission (network failure
\* or non-2xx) included -- resolves to an envelope with success == false.
C1_AnyFailedStepFails ==
    \A c \in CallIds :
        /\ pc[c] # "rejected"
        /\ (Done(c) /\ (StepThrew(c) \/ lastCheck.outcome \in {"non2xx", "neterr"}
                          \/ trace[c].join = "non2xx"))
              => envelope[c].success = FALSE

\* C1 amended: no capability call ever rejects, and a call in which a step
\* threw resolves to an envelope with success == false that carries the
\* message; a failed config probe or a non-2xx queue/join alone does not
\* decide the envelope.
C1_NeverRejects ==
    \A c \in CallIds :
        /\ pc[c] # "rejected"
        /\ (Done(c) /\ StepThrew(c))
              => envelope[c].success = FALSE /\ envelope[c].error # ""

C1_Witness ==
    /\ Done(1)
    /\ trace[1].poll = "non2xx"
    /\ envelope[1] = Failure("Queue data error")

\* C2: after a non-2xx queue/join response the legacy predict request is
\* sent exactly once for the call, no queue/data request is sent for it, and
\* a successful, parsed legacy response makes its data the call's result.
C2_LegacyFallback ==
    \A c \in CallIds :
        trace[c].join = "non2xx" =>
            /\ Cardinality(Sends(Who(c), "/api/predict")) = 1
            /\ Sends(Who(c), "/queue/data") = {}
            /\ (Done(c) /\ trace[c].legacy = "ok" /\ trace[c].legacyParsed)
                  => /\ ret[c].via = "legacy"
                     /\ ~ret[c].threw
                     /\ ret[c].v = trace[c].legacyData

C2_Witness ==
    /\ Done(1)
    /\ trace[1].join = "non2xx"
    /\ trace[1].legacyParsed
    /\ ret[1].v = ArrMesh

\* C3 as stated: when the delivered stream text holds a line that has the
\* 'data: ' prefix, parses and is a completion event with an output data
\* array, the call returns the data array of the first such line.
C3_FirstCompletionLine ==
    \A c \in CallIds :
        (Done(c) /\ ref[c].hit /\ OutputData(ref[c].ev).t = "array")
            => /\ ret[c].via = "queue"
               /\ ret[c].v = OutputData(ref[c].ev)

C5_NoResultAtEnd ==
    \A c \in CallIds :
        /\ trace[c].end = "eof" => /\ Done(c)
                                   /\ envelope[c].success = FALSE
                                   /\ envelope[c].error = "No result received from queue"
        /\ (Done(c) /\ envelope[c].success) => ret[c].v \notin {Undef, Null}

C5_Witness ==
    /\ Done(1)
    /\ trace[1].end = "eof"
    /\ reads[1] >= 1
    /\ ~ref[1].hit

\* C6: a call has at most one request outstanding; its queue/join is sent
\* only after its config probe was answered, and its queue/data only after
\* queue/join answered 2xx and its body was parsed.
C6_StrictOrder ==
    \A c \in CallIds :
        /\ Cardinality({r \in net : r.who = Who(c)}) <= 1
        /\ Sends(Who(c), "/queue/join") # {}
              => Outstanding(Who(c), "/config") = {} /\ lastCheck.outcome # "none"
        /\ Sends(Who(c), "/queue/data") # {}
              => trace[c].join = "ok" /\ trace[c].joinParsed

C6_Witness ==
    /\ Outstanding(Who(1), "/queue/data") # {}
    /\ lastCheck.outcome = "neterr"

\* C7: the polls of all calls carry the one session hash their submissions
\* carried, and a result returned from the queue path is the output data of
\* the completion event the loop took, whatever job the event belongs to.
C7_SharedSession ==
    /\ \A c, d \in CallIds :
          \A r \in Sends(Who(c), "/queue/data"), j \in Sends(Who(d), "/queue/join") :
              r.hash = j.hash
    /\ \A c \in CallIds :
          ret[c].via = "queue" =>
              /\ ret[c].v = OutputData(taken[c])
              /\ ret[c].id = taken[c].id
              /\ taken[c].id \in CallIds

\* Call 2 was submitted while call 1 was polling, and call 1 returned the
\* output of call 2's job.
C7_Witness ==
    /\ Done(1)
    /\ envelope[1].success
    /\ ret[1].via = "queue"
    /\ ret[1].id = 2
    /\ pc[2] = "read"

\* C8: the session hash is the one the constructor generated, the base URL
\* is unchanged, and every queue/join body and queue/data URL sent carries
\* that hash.
C8_SessionImmutable ==
    /\ sessionHash = createdHash
    /\ baseUrl = cBase
    /\ \A r \in sent :
          r.ep \in {"/queue/join", "/queue/data"} => r.hash = createdHash

C8_Witness ==
    /\ Cardinality({r \in sent : r.ep = "/queue/data"}) = 2
    /\ Cardinality({r \in sent : r.ep = "/queue/join"}) = 2
    /\ nProbes = 1 /\ probePc = "idle"
    /\ nDownloads = 1 /\ dlPc = "idle"

\* C9 as stated: the seven keys map to 0, 2, 3, 4, 5, 6, 7, equal names give
\* equal indices, every other string gives the number 0, and 1 is never
\* produced.
ExpectedIndex(n) ==
    CASE n = "chat_to_code" -> 0 [] n = "parse_parameters" -> 2
      [] n = "generate_mesh" -> 3 [] n = "export_stl" -> 4
      [] n = "get_component_template" -> 5 [] n = "validate_code" -> 6
      [] n = "auto_fix_code" -> 7 [] OTHER -> 0
C9_FnIndexMapping ==
    \A i \in DOMAIN lookups :
        /\ lookups[i].index = Num(ExpectedIndex(lookups[i].name))
        /\ lookups[i].index # Num(1)
        /\ \A j \in DOMAIN lookups :
              lookups[j].name = lookups[i].name => lookups[j].index = lookups[i].index

\* C10: checkConnection never throws; it stores true exactly when /config
\* answered 2xx, false on non-2xx and on a network failure, and returns the
\* value it stored.
C10_CheckConnection ==
    /\ probePc # "rejected"
    /\ lastCheck.outcome # "none"
          => /\ lastCheck.stored = (lastCheck.outcome = "ok")
             /\ lastCheck.returned = lastCheck.stored

\* A probe that failed at the network level after the client was connected.
C10_Witness ==
    /\ nProbes = 1 /\ probePc = "idle"
    /\ lastCheck.outcome = "neterr"
    /\ ~lastCheck.stored /\ ~lastCheck.returned
    /\ ~isConnected
    /\ \E c \in CallIds : Done(c) /\ envelope[c].success

\* C11 as stated: when the /config response of the call's probe carried an
\* api_prefix, the queue/join, queue/data and api/predict requests of the
\* call use that prefix; they use '/gradio_api' only when the probe failed
\* or the field was absent.
C11_AdvertisedPrefixUsed ==
    \A r \in sent :
        (r.who = Who(1) /\ r.ep \in {"/queue/join", "/queue/data", "/api/predict"})
            => r.prefix = IF lastCheck.advertised # NoPrefix
                          THEN lastCheck.advertised ELSE DefaultPrefix

\* C12 as stated: a capability call that starts while isConnected is true
\* sends no /config request, and its initialization step leaves isConnected
\* as it was.
C12_NoProbeOnceConnected ==
    [][\A c \in CallIds :
          /\ (isConnected /\ pc[c] = "idle" /\ pc'[c] # "idle")
                => {r \in sent' : r.who = Who(c) /\ r.ep = "/config"} = {}
          /\ (isConnected /\ pc[c] = "probe" /\ pc'[c] # "probe")
                => isConnected']_vars

\* C13: isConnected is false after construction, and a step takes it from
\* true to false only when it is the answer to the /config request of a
\* checkConnection (stand-alone or at the start of a call) that failed or
\* was non-2xx; no failure of queue/join, queue/data, the stream read or the
\* legacy request does.
C13_ResetOnlyByFailedProbe ==
    /\ ~isConnected
    /\ [][(isConnected /\ ~isConnected')
             => /\ \E r \in net \ net' : r.ep = "/config"
                /\ lastCheck'.outcome \in {"non2xx", "neterr"}
                /\ \A c \in CallIds : pc[c] = "probe" \/ pc'[c] = pc[c]]_vars

\* Call 1 returned a result (isConnected was set), call 2 then failed at its
\* queue/data request with isConnected still true.
C13_Witness ==
    /\ Done(1) /\ envelope[1].success
    /\ Done(2) /\ trace[2].poll = "neterr" /\ lastCheck.outcome = "ok"
    /\ isConnected

\* C14: with one call in flight, when _callGradio5 has returned a result
\* (from a completion event or from a parsed legacy response) isConnected is
\* true, also when the config probe of the call had failed.
C14_ConnectedAtReturn ==
    (Done(1) /\ ret[1].via \in {"queue", "legacy"}) => isConnected

C14_Witness ==
    /\ Done(1)
    /\ lastCheck.outcome = "neterr"
    /\ ret[1].via = "legacy"
    /\ ret[1].v = ArrJson
    /\ isConnected

\* ------------------------------------------------ claims on the unpacking
\* The unpacked call was generateMesh or exportSTL and its envelope has a URL.
FileCase ==
    /\ unpacked.stage # "none"
    /\ unpacked.method \in FileMethods
RawRef == Idx(unpacked.raw, 0)
Url == UrlOf(unpacked.method, unpacked.envelope)
\* The field of a file object the URL is to be taken from.
Source(obj) ==
    IF obj.url # Undef THEN obj.url ELSE IF obj.path # Undef THEN obj.path ELSE Null
EndsWith(s, q) == Len(s) >= Len(q) /\ SubSeq(s, Len(s) - Len(q) + 1, Len(s)) = q
\* s begins with a URL scheme: letters up to a colon.
HasScheme(s) ==
    \E i \in 2..Len(s) : s[i] = ":" /\ \A j \in 1..(i - 1) : s[j] \notin {"/", ":"}
StripSlash(s) == IF StartsWith(s, cSlash) THEN Tail(s) ELSE s
\* s has two slashes in a row other than those of '://'.
DoubleSlash(s) ==
    \E i \in 1..(Len(s) - 1) :
        s[i] = "/" /\ s[i + 1] = "/" /\ (IF i = 1 THEN TRUE ELSE s[i - 1] # ":")

\* C15: when the raw first result of generateMesh / exportSTL is an object,
\* the URL comes from its url field if it has one, else from its path field,
\* else it is null; and an envelope whose URL is null has success == false.
C15_UrlThenPath ==
    FileCase =>
        /\ RawRef.t = "object" =>
              /\ HasUrl(unpacked.method, unpacked.envelope)
              /\ Source(RawRef) = Null => Url = Null
              /\ Source(RawRef) # Null
                    => Url.t = "string" /\ EndsWith(Url.s, Source(RawRef).s)
        /\ (HasUrl(unpacked.method, unpacked.envelope) /\ Url = Null)
              => unpacked.envelope.success = FALSE

C15_Witness ==
    /\ FileCase
    /\ RawRef = FileObj(Str(cAbs), Str(cPath))
    /\ Url = Str(cAbs)
    /\ unpacked.envelope.success

\* C16: when a schemeless value taken from a file object is prefixed with
\* the base URL, the returned URL is the base URL, one slash, and the value
\* without its leading slash, and it has no double slash after '://'.
C16_OneSeparatingSlash ==
    (FileCase /\ RawRef.t = "object" /\ Source(RawRef) # Null
        /\ ~HasScheme(Source(RawRef).s) /\ Url # Source(RawRef))
        => /\ Url = Str(baseUrl \o cSlash \o StripSlash(Source(RawRef).s))
           /\ ~DoubleSlash(Url.s)

C16_Witness ==
    /\ FileCase
    /\ unpacked.method = "exportSTL"
    /\ RawRef = FileObj(Undef, Str(cPath))
    /\ Url = Str(baseUrl \o cPath)

\* C17 as stated: a file reference that arrives as a plain relative string
\* is returned prefixed with the base URL.
C17_PlainStringPrefixed ==
    (FileCase /\ RawRef.t = "string" /\ ~HasScheme(RawRef.s))
        => /\ HasUrl(unpacked.method, unpacked.envelope)
           /\ Url = Str(baseUrl \o cSlash \o StripSlash(RawRef.s))

\* C18: normalizing the URL a file wrapper returned gives the same URL.
C18_NormalizeIdempotent ==
    unpacked.stage = "twice" => unpacked.again = Url

C18_Witness ==
    /\ unpacked.stage = "twice"
    /\ RawRef = FileObj(Str(cRel), Undef)
    /\ unpacked.again = Str(baseUrl \o cSlash \o cRel)

\* C19 as stated: a value taken from a file object is returned unchanged
\* when it carries a scheme (http or any other), and prefixed with the base
\* URL when it carries none, also when it begins with the letters 'http'.
C19_PrefixedIffSchemeless ==
    (FileCase /\ RawRef.t = "object" /\ Source(RawRef) # Null)
        => /\ HasUrl(unpacked.method, unpacked.envelope)
           /\ HasScheme(Source(RawRef).s) => Url = Source(RawRef)
           /\ ~HasScheme(Source(RawRef).s)
                 => Url = Str(baseUrl \o cSlash \o StripSlash(Source(RawRef).s))

\* C20: when the warnings field (validateCode, position 1) or the fixes
\* field (autoFixCode, position 2) is empty or is no JSON text, the envelope
\* has success == true, an empty list in its place, and the other fields
\* unpacked from their positions.
BadJson(f) == ~Truthy(f) \/ ~JSONParse(f).ok
C20_MalformedJsonDegrades ==
    /\ (unpacked.method = "validateCode" /\ BadJson(Idx(unpacked.raw, 1)))
          => unpacked.envelope = [success |-> TRUE, message |-> Idx(unpacked.raw, 0),
                                  warnings |-> Arr(<<>>)]
    /\ (unpacked.method = "autoFixCode" /\ BadJson(Idx(unpacked.raw, 2)))
          => unpacked.envelope = [success |-> TRUE, fixedCode |-> Idx(unpacked.raw, 0),
                                  status |-> Idx(unpacked.raw, 1), fixes |-> Arr(<<>>)]

C20_Witness ==
    /\ unpacked.method = "validateCode"
    /\ Idx(unpacked.raw, 1) = Str(cNotJson)
    /\ unpacked.envelope.success
    /\ unpacked.envelope.warnings = Arr(<<>>)

\* C21 as stated: when the params field (parseParameters, position 0) is
\* malformed JSON, the decode failure is recovered by the empty mapping and
\* the envelope has success == true.
C21_ParamsDecodeRecovered ==
    (unpacked.method = "parseParameters"
        /\ Idx(unpacked.raw, 0).t = "string" /\ BadJson(Idx(unpacked.raw, 0))
        /\ Truthy(Idx(unpacked.raw, 0)))
        => /\ unpacked.envelope.success = TRUE
           /\ unpacked.envelope.params = EmptyObj

\* C22: every queue/join and api/predict body carries the wrapper's
\* arguments in its fixed order, a successful envelope holds the result
\* array's entries by position under the wrapper's field names, and
\* generateMesh on [{path: '/f/m'}, 'OK', '10x10'] resolves to
\* {success: true, meshUrl: baseUrl + '/f/m', status: 'OK', meshInfo: '10x10'}.
C22_FixedOrderAndPositions ==
    LET m == method[1]
        v == ret[1].v
        e == envelope[1]
    IN  /\ \A r \in sent :
              (r.who = Who(1) /\ r.ep \in {"/queue/join", "/api/predict"})
                  => r.data =
                        CASE m = "chatToCode" -> <<"message", "history", "currentCode">>
                          [] m \in {"generateMesh", "exportSTL"} -> <<"code", "paramsJson">>
                          [] m = "getComponentTemplate" -> <<"componentType", "paramsJson">>
                          [] OTHER -> <<"code">>
        /\ (Done(1) /\ e.success) =>
              CASE m = "chatToCode" ->
                     e.code = Idx(v, 0) /\ e.status = Idx(v, 1) /\ e.history = Idx(v, 2)
                [] m = "generateMesh" -> e.status = Idx(v, 1) /\ e.meshInfo = Idx(v, 2)
                [] m = "parseParameters" -> e.status = Idx(v, 1)
                [] m = "validateCode" -> e.message = Idx(v, 0)
                [] m = "autoFixCode" -> e.fixedCode = Idx(v, 0) /\ e.status = Idx(v, 1)
                [] m = "exportSTL" -> e.status = Idx(v, 1)
                [] OTHER -> e.code = Idx(v, 0) /\ e.description = Idx(v, 1)
        /\ (Done(1) /\ m = "generateMesh" /\ ~ret[1].threw /\ v = ArrMesh)
              => e = [success |-> TRUE, meshUrl |-> Str(baseUrl \o cPath),
                      status |-> Str(cOK), meshInfo |-> Str(cInfo)]

C22_Witness ==
    /\ Done(1)
    /\ method[1] = "generateMesh"
    /\ ret[1].via = "queue"
    /\ envelope[1].success
    /\ envelope[1].meshUrl = Str(baseUrl \o cPath)
    /\ envelope[1].meshInfo = Str(cInfo)
    /\ \E r \in sent : r.ep = "/queue/join" /\ r.data = <<"code", "paramsJson">>

\* C23: a non-2xx response to queue/data ends the call with the failure
\* envelope; no api/predict request is sent for it, and its queue/join and
\* queue/data requests were each sent once.
C23_PollNotOkTerminal ==
    \A c \in CallIds :
        trace[c].poll = "non2xx" =>
            /\ Done(c)
            /\ envelope[c].success = FALSE
            /\ envelope[c].error = "Queue data error"
            /\ Sends(Who(c), "/api/predict") = {}
            /\ Cardinality(Sends(Who(c), "/queue/join")) = 1
            /\ Cardinality(Sends(Who(c), "/queue/data")) = 1
            /\ {r \in net : r.who = Who(c)} = {}

C23_Witness ==
    /\ Done(1)
    /\ method[1] = "validateCode"
    /\ trace[1].poll = "non2xx"
    /\ lastCheck.outcome = "ok"
    /\ ~envelope[1].success

\* C24 as stated: when the queue/join request fails with no HTTP response,
\* the call goes on through api/predict, as for a non-2xx response.
C24_TransportFailureFallsBack ==
    \A c \in CallIds :
        trace[c].join = "neterr"
            => /\ Cardinality(Sends(Who(c), "/api/predict")) = 1
               /\ trace[c].legacy = "none" => pc[c] = "legacy"

\* C25 as stated: every envelope with success == false that a capability
\* method returns has an error field holding a message string.
C25_FailureCarriesError ==
    (unpacked.stage # "none" /\ unpacked.envelope.success = FALSE)
        => /\ "error" \in DOMAIN unpacked.envelope
           /\ unpacked.envelope.error # ""

\* C26 as stated: once the loop has taken a completion event that carries
\* an output payload, the reader is cancelled and no further read resolves
\* on the stream, whatever the payload holds; and a call that has ended has
\* not left its stream open.
C26_CancelAndStop ==
    \A c \in CallIds :
        /\ taken[c] # NoEvent
              => stream[c] = "cancelled" /\ trace[c].end \notin {"eof", "readerr"}
        /\ Done(c) => stream[c] # "open"

\* C27: a call that has started resolves, unless its poll stream stays open
\* without a completion event: from some point on the call is resolved or
\* is waiting for a read of an open stream from which no event was taken;
\* and when every open stream eventually delivers a completion event or
\* ends, the call resolves.
StreamWait == pc[1] = "read" /\ stream[1] = "open" /\ taken[1] = NoEvent
C27_EventuallyResolves ==
    /\ <>[](pc[1] = "idle" \/ Done(1) \/ StreamWait)
    /\ []<>(~StreamWait) => ((pc[1] # "idle") ~> Done(1))

C27_Witness ==
    /\ Done(1)
    /\ trace[1].end = "readerr"
    /\ reads[1] = 1
    /\ envelope[1].error = "network error"

\* C28 as stated: downloadFile never rejects, and when it has returned no
\* blob object URL it created is left unrevoked, also when attaching or
\* clicking the temporary link threw.
C28_DownloadReleasesUrl ==
    /\ dlPc # "rejected"
    /\ (dlPc = "idle" /\ nDownloads > 0)
          => /\ objectUrls = 0
             /\ "success" \in DOMAIN dlEnvelope

\* C29 as stated: whatever the chunking of the stream text, the completion
\* event the loop takes is the first completion line of the text delivered
\* so far, as when every line arrives whole.
C29_ChunkingIndependent ==
    \A c \in CallIds : ref[c].hit => taken[c] = ref[c].ev

\* C30 as stated: with strictly serialized calls, a call that returns a
\* result from the queue returns the output of the job it submitted itself,
\* also after an earlier call failed at its poll step with its job accepted.
C30_SerializedOwnOutput ==
    \A c \in CallIds :
        /\ (pc[c] \notin {"idle", "done"})
              => \A d \in CallIds \ {c} : pc[d] \in {"idle", "done"}
        /\ ret[c].via = "queue" => ret[c].id = c

\* C31: a failed config probe at the start of a capability call neither fails
\* nor skips the call: once the probe has settled, whatever checkConnection
\* returned, the call has sent its queue/join submission, and the probe alone
\* never settles the call.
C31_ProbeNeverSkipsSubmit ==
    /\ pc[1] \notin {"idle", "probe"} => Sends(CallWho(1), "/queue/join") # {}
    /\ (Done(1) \/ pc[1] = "rejected") => trace[1].join # "none"
\* A call whose probe failed resolved to a success envelope.
C31_Witness ==
    /\ Done(1)
    /\ lastCheck.outcome \in {"non2xx", "neterr"}
    /\ ~lastCheck.returned
    /\ envelope[1].success

\* C32 as stated: generateMesh and exportSTL return success == true only
\* with a URL (meshUrl / fileUrl) that is a non-empty string, for every
\* result array, one whose first element is undefined included.
C32_SuccessHasUsableUrl ==
    (FileCase /\ unpacked.envelope.success)
        => /\ Url.t = "string"
           /\ Url.s # <<>>

\* The parameters a generateMesh request carries, decoded from its
\* paramsJson.
ParamsSent(r) == ObjectEntries(JSONParse(Str(r.paramsJson)).v)

\* C33 as stated: a parameter value the user set with a slider persists
\* across regenerations of unchanged code: every generateMesh request sent
\* after the user set k to v, and before the user moves that slider again
\* or the code changes, carries k = v.
C33_SliderValuePersists ==
    \A i \in DOMAIN meshRequests :
        \A k \in DOMAIN meshRequests[i].userSet :
            /\ k \in DOMAIN ParamsSent(meshRequests[i])
            /\ ParamsSent(meshRequests[i])[k] = meshRequests[i].userSet[k]

\* C34 as stated: the viewport loading indicator is active exactly while at
\* least one generation started by _generateMesh is in flight (its
\* api.generateMesh call has not resolved), overlapping generations included.
InFlight == {g \in GenIds : genPc[g] = "api"}
C34_LoadingWhileInFlight == loading <=> InFlight # {}

\* C35 as stated: _exportSTL shows the 'STL downloaded!' success toast only
\* when api.downloadFile returned success == true; after a failed download a
\* failure toast is shown instead.
C35_SuccessToastOnlyAfterDownload ==
    /\ toast = ShowToast(Lit("STL downloaded!"), "success") => dlEnvelope.success
    /\ (exportPc = "done" /\ nDownloads > 0 /\ ~dlEnvelope.success)
          => toast.type = "error"

\* C36 as stated: when api.validateCode succeeds for code the backend
\* reports as valid (its message is the backend's 'valid' message),
\* _validateCode takes its valid branch: the editor markers are cleared and
\* the message is shown as a success toast.
C36_ValidBranchTaken ==
    (validatePc = "done" /\ validated.success /\ validated.message = Str(cOK))
        => /\ markers.cleared
           /\ toast = ShowToast(Str(cOK), "success")

\* C37: when the api.chatToCode call of a _handleSend run resolves, the
\* typing indicator of the run is removed, whatever the envelope; a failure
\* envelope leaves Chat.history and the editor code as they were and
\* dispatches no generateMesh event (no generation starts); and history
\* changes only to the history of a successful response ([] when it has
\* none).
C37_FailureLeavesChatUnchanged ==
    [][\A s \in SendIds :
          (chatPc[s] = "api" /\ chatPc'[s] = "done")
              => /\ Len(typing') = Len(typing) - 1
                 /\ Cardinality({x \in SendIds : chatPc'[x] = "api"}) = Len(typing')
                 /\ ~chatResult'[s].success
                       => /\ history' = history
                          /\ editorCode' = editorCode
                          /\ setCodeTimers' = setCodeTimers
                          /\ events' = events
                          /\ genPc' = genPc
                          /\ meshRequests' = meshRequests
                 /\ history' # history
                       => /\ chatResult'[s].success
                          /\ history' = Or(chatResult'[s].history, Arr(<<>>))]_vars
\* A send failed after an earlier send had left a history, and no typing
\* indicator is left.
C37_Witness ==
    /\ \E s \in SendIds : chatPc[s] = "done" /\ ~chatResult[s].success
    /\ history # Arr(<<>>)
    /\ typing = <<>>
====
